---- MODULE Spec2Model ----
(***************************************************************************)
(* Model of the sector-relative scorer of the Professional Trading         *)
(* Terminal (src/stock_analyzer.py).                                       *)
(*                                                                         *)
(* Numbers.  A fundamentals value is a Python float (or int, or None, or   *)
(* a missing key).  A finite number x is held as the integer 1000*x        *)
(* (fixed point, thousandths); NaN and the two infinities are values of    *)
(* their own, because the code's truth tests and comparisons treat them    *)
(* differently from finite numbers.  Every threshold of the code is a      *)
(* multiple of 1/1000 after multiplying both sides by a power of ten, so   *)
(* every comparison is exact.  The finite inputs the model feeds are       *)
(* values whose floating-point products (x * 100, avg * 1.3, pe * 0.9,     *)
(* ...) compare as the exact products do; a value such as 0.14, for which  *)
(* 0.14 * 100 > 14.0 holds in floating point, is not among them.           *)
(*                                                                         *)
(* Scores.  A category score is sum(points)/len(points) with at most five  *)
(* points; it is held as the integer 60*score.  The overall score, a sum   *)
(* of category scores weighted in hundredths, is held as 6000*score.       *)
(***************************************************************************)
EXTENDS Integers, Sequences, FiniteSets, TLC

VARIABLES
    data,        \* stock_data handed to StockAnalyzer (the fundamentals mapping)
    pc,          \* "new" | "ready" (constructed) | "done" | "raised"
    sector,      \* self.sector
    industry,    \* self.industry
    benchmarks,  \* self.benchmarks
    result,      \* the AnalysisResult returned by analyze()
    result2,     \* the AnalysisResult of a second analyze() on the same analyzer
    recScore,    \* argument of a direct _get_recommendation call
    recOut,      \* its return value
    df,          \* the DataFrame handed to an indicator entry point
    entry,       \* the indicator entry point called, "" before the call
    out,         \* what the entry point returned: the columns it assigned
    ipc,         \* "idle" | "returned" | "raised" | "nodata"
    cache,       \* self.cache of the two memoizing clients
    now,         \* time.time(), in seconds
    last,        \* the last cache request: its key, what it returned, whether
                 \* the producer was called
    positions,   \* self.positions of the PortfolioManager
    file,        \* the content of the portfolio file
    reply        \* the last portfolio call: its arguments and what it returned

scorerVars == <<data, pc, sector, industry, benchmarks, result, result2, recScore, recOut>>

indicatorVars == <<df, entry, out, ipc>>

cacheVars == <<cache, now, last>>

portfolioVars == <<positions, file, reply>>

vars == <<scorerVars, indicatorVars, cacheVars, portfolioVars>>

-----------------------------------------------------------------------------
(* Values of the fundamentals mapping *)

\* thousandths: the fixed-point unit of every finite number
U == 10 * 10 * 10

\* 60 * score: the unit of a category score
CS == 6 * 10

\* 6000 * score: the unit of the overall score
OS == 60 * 100

Absent == [t |-> "absent", v |-> 0]
None   == [t |-> "none",   v |-> 0]
NaN    == [t |-> "nan",    v |-> 0]
PosInf == [t |-> "pinf",   v |-> 0]
NegInf == [t |-> "ninf",   v |-> 0]
Num(n) == [t |-> "num",    v |-> n]

\* text fields: a missing key and None are sentinels beside the strings
ABSENT_S == "<absent>"
NONE_S   == "<None>"

\* dict.get(key): a missing key reads as None
Get(x) == IF x.t = "absent" THEN None ELSE x

\* dict.get(key, default) on a text field
GetOr(s, default) == IF s = ABSENT_S THEN default ELSE s

\* Python truth value of a number or None: None, 0 and 0.0 are false; NaN and
\* the infinities are true
Truthy(x) == /\ x.t \notin {"absent", "none"}
             /\ ~(x.t = "num" /\ x.v = 0)

\* Python truth value of a str or None
TruthyS(s) == s \notin {ABSENT_S, NONE_S, ""}

\* x is not None
IsNotNone(x) == x.t \notin {"absent", "none"}

\* a float (finite or not): what "<" and ">" accept beside another number
IsNumber(x) == x.t \in {"num", "nan", "pinf", "ninf"}

\* x * k for an integer k > 0
Times(x, k) == IF x.t = "num" THEN Num(x.v * k) ELSE x

\* float comparison x < y, x > y (IEEE: false when either side is NaN)
LtX(x, y) ==
    CASE x.t = "nan" \/ y.t = "nan" -> FALSE
      [] x.t = "ninf" -> y.t # "ninf"
      [] x.t = "pinf" -> FALSE
      [] y.t = "pinf" -> TRUE
      [] y.t = "ninf" -> FALSE
      [] OTHER -> x.v < y.v

GtX(x, y) == LtX(y, x)

\* comparison with a finite threshold n (thousandths)
Lt(x, n) == LtX(x, Num(n))
Gt(x, n) == GtX(x, Num(n))

-----------------------------------------------------------------------------
(* Sector benchmarks *)

\* one row of the table; pb_avg and debt_equity_ok are given in tenths
Row(pe_avg, pe_good, pe_bad, pb_avg10, roe_avg, margin_avg, growth_avg, de_ok10) ==
    [pe_avg |-> pe_avg * U, pe_good |-> pe_good * U, pe_bad |-> pe_bad * U,
     pb_avg |-> pb_avg10 * (U \div 10), roe_avg |-> roe_avg * U,
     margin_avg |-> margin_avg * U, growth_avg |-> growth_avg * U,
     debt_equity_ok |-> de_ok10 * (U \div 10)]

SectorNames ==
    {"Technology", "Software", "Finance", "Consumer Cyclical", "Healthcare",
     "Energy", "Industrials", "Consumer Defensive", "Communication Services",
     "Utilities", "Real Estate", "Basic Materials"}

SECTOR_BENCHMARKS ==
    [s \in SectorNames |->
        CASE s = "Technology"             -> Row(35, 25, 60, 80, 20, 25, 15, 15)
          [] s = "Software"               -> Row(45, 30, 80, 150, 25, 30, 25, 10)
          [] s = "Finance"                -> Row(12, 10, 18, 12, 12, 35, 8, 30)
          [] s = "Consumer Cyclical"      -> Row(20, 15, 30, 40, 18, 10, 10, 12)
          [] s = "Healthcare"             -> Row(22, 18, 35, 50, 15, 18, 12, 8)
          [] s = "Energy"                 -> Row(15, 10, 25, 15, 10, 8, 5, 10)
          [] s = "Industrials"            -> Row(18, 15, 25, 30, 14, 12, 8, 10)
          [] s = "Consumer Defensive"     -> Row(22, 18, 30, 40, 16, 8, 5, 8)
          [] s = "Communication Services" -> Row(25, 18, 40, 30, 15, 20, 12, 12)
          [] s = "Utilities"              -> Row(18, 15, 25, 18, 10, 12, 3, 15)
          [] s = "Real Estate"            -> Row(30, 20, 50, 20, 8, 15, 5, 20)
          [] OTHER                        -> Row(16, 12, 25, 20, 12, 10, 6, 8)]

DEFAULT_BENCHMARK == Row(25, 18, 40, 40, 15, 15, 10, 10)

\* SECTOR_BENCHMARKS.get(sector, DEFAULT_BENCHMARK)
BenchmarkLookup(s) ==
    IF s \in SectorNames THEN SECTOR_BENCHMARKS[s] ELSE DEFAULT_BENCHMARK

-----------------------------------------------------------------------------
(* Signal points.  A contribution is the points a step appends, with a flag *)
(* for an exception the step would raise (None in a comparison, a division  *)
(* by zero).                                                                *)

NoPt   == [err |-> FALSE, pts |-> <<>>]
Pt(p)  == [err |-> FALSE, pts |-> <<p>>]
Raise  == [err |-> TRUE,  pts |-> <<>>]

\* what the body of "if <test>:" appends: nothing when the test is false; a
\* TypeError when a compared operand is None; else the point p
When(test, operandsOk, p) ==
    IF ~test THEN NoPt ELSE IF ~operandsOk THEN Raise ELSE Pt(p)

Join(a, b) == [err |-> a.err \/ b.err, pts |-> a.pts \o b.pts]

RECURSIVE Sum(_)
Sum(s) == IF s = <<>> THEN 0 ELSE Head(s) + Sum(Tail(s))

\* sum(points) / len(points) if points else 50, in units of 1/60
MeanZeroDefault(pts) == IF pts = <<>> THEN 0 ELSE (Sum(pts) * CS) \div Len(pts)

Mean(pts) == IF pts = <<>> THEN 50 * CS ELSE (Sum(pts) * CS) \div Len(pts)

-----------------------------------------------------------------------------
(* _analyze_valuation *)

\* the same with the two middle bands exchanged
PEPointMiddleSwapped(d, b) ==
    LET pe == Get(d.trailingPE) IN
    When(Truthy(pe), IsNumber(pe),
         IF Lt(pe, b.pe_good) THEN 80
         ELSE IF Lt(pe, b.pe_avg) THEN 40
         ELSE IF Lt(pe, b.pe_bad) THEN 60
         ELSE 20)

\* P/E ratio against the sector's good / average / bad levels
PEPoint(d, b) ==
    LET pe == Get(d.trailingPE) IN
    When(Truthy(pe), IsNumber(pe),
         IF Lt(pe, b.pe_good) THEN 80
         ELSE IF Lt(pe, b.pe_avg) THEN 60
         ELSE IF Lt(pe, b.pe_bad) THEN 40
         ELSE 20)

\* the same with the 0.7 * pb_avg band left out
PBPointNoDiscount(d, b) ==
    LET pb == Get(d.priceToBook) IN
    When(Truthy(pb), IsNumber(pb),
         IF Lt(pb, b.pb_avg) THEN 60
         ELSE IF Lt(Times(pb, 10), b.pb_avg * 15) THEN 40
         ELSE 20)

\* P/B ratio against 0.7, 1 and 1.5 times the sector average
PBPoint(d, b) ==
    LET pb == Get(d.priceToBook) IN
    When(Truthy(pb), IsNumber(pb),
         IF Lt(Times(pb, 10), b.pb_avg * 7) THEN 80
         ELSE IF Lt(pb, b.pb_avg) THEN 60
         ELSE IF Lt(Times(pb, 10), b.pb_avg * 15) THEN 40
         ELSE 20)

\* PEG ratio against 1, 1.5 and 2
PEGPoint(d) ==
    LET peg == Get(d.pegRatio) IN
    When(Truthy(peg), IsNumber(peg),
         IF Lt(peg, 1 * U) THEN 90
         ELSE IF Lt(Times(peg, 10), 15 * U) THEN 70
         ELSE IF Lt(peg, 2 * U) THEN 50
         ELSE 30)

\* forward P/E against 0.9 * trailing P/E and trailing P/E
ForwardPEPoint(d) ==
    LET pe  == Get(d.trailingPE)
        fpe == Get(d.forwardPE) IN
    When(Truthy(fpe) /\ Truthy(pe), IsNumber(fpe) /\ IsNumber(pe),
         IF LtX(Times(fpe, 10), Times(pe, 9)) THEN 70
         ELSE IF LtX(fpe, pe) THEN 60
         ELSE 40)

ValuationPoints(d, b) ==
    Join(PEPoint(d, b), Join(PBPoint(d, b), Join(PEGPoint(d), ForwardPEPoint(d))))

-----------------------------------------------------------------------------
(* _analyze_financial_health *)

\* x * 100 compared with avg * 1.3, avg, avg * 0.7 (ROE and profit margin)
VsSectorAverage(x, avg) ==
    IF Gt(Times(x, 100 * 10), avg * 13) THEN 90
    ELSE IF Gt(Times(x, 100), avg) THEN 70
    ELSE IF Gt(Times(x, 100 * 10), avg * 7) THEN 50
    ELSE 30

ROEPoint(d, b) ==
    LET roe == Get(d.returnOnEquity) IN
    When(Truthy(roe), IsNumber(roe), VsSectorAverage(roe, b.roe_avg))

ROAPoint(d) ==
    LET roa == Get(d.returnOnAssets) IN
    When(Truthy(roa), IsNumber(roa),
         IF Gt(roa, 150) THEN 85
         ELSE IF Gt(roa, 100) THEN 70
         ELSE IF Gt(roa, 50) THEN 50
         ELSE 30)

\* guarded by "is not None": a debt/equity of 0 is scored
DebtEquityPoint(d, b) ==
    LET de == Get(d.debtToEquity) IN
    When(IsNotNone(de), IsNumber(de),
         IF Lt(Times(de, 10), b.debt_equity_ok * 5) THEN 90
         ELSE IF Lt(de, b.debt_equity_ok) THEN 70
         ELSE IF Lt(Times(de, 10), b.debt_equity_ok * 15) THEN 40
         ELSE 20)

MarginPoint(d, b) ==
    LET margin == Get(d.profitMargins) IN
    When(Truthy(margin), IsNumber(margin), VsSectorAverage(margin, b.margin_avg))

FCFPoint(d) ==
    LET fcf == Get(d.freeCashflow) IN
    When(Truthy(fcf), IsNumber(fcf), IF Gt(fcf, 0) THEN 70 ELSE 20)

HealthPoints(d, b) ==
    Join(ROEPoint(d, b), Join(ROAPoint(d), Join(DebtEquityPoint(d, b),
         Join(MarginPoint(d, b), FCFPoint(d)))))

-----------------------------------------------------------------------------
(* _analyze_growth *)

\* the first threshold test with ">=" in place of ">"
RevGrowthPointInclusive(d, b) ==
    LET g == Get(d.revenueGrowth) IN
    When(Truthy(g), IsNumber(g),
         IF ~Lt(Times(g, 100), b.growth_avg * 2) /\ g.t # "nan" THEN 95
         ELSE IF Gt(Times(g, 100 * 10), b.growth_avg * 13) THEN 80
         ELSE IF Gt(Times(g, 100), b.growth_avg) THEN 65
         ELSE IF Gt(g, 0) THEN 45
         ELSE 20)

\* revenue growth (in percent) against 2, 1.3 and 1 times the sector average
RevGrowthPoint(d, b) ==
    LET g == Get(d.revenueGrowth) IN
    When(Truthy(g), IsNumber(g),
         IF Gt(Times(g, 100), b.growth_avg * 2) THEN 95
         ELSE IF Gt(Times(g, 100 * 10), b.growth_avg * 13) THEN 80
         ELSE IF Gt(Times(g, 100), b.growth_avg) THEN 65
         ELSE IF Gt(g, 0) THEN 45
         ELSE 20)

EarningsGrowthPoint(d) ==
    LET eg == Get(d.earningsGrowth) IN
    When(Truthy(eg), IsNumber(eg),
         IF Gt(Times(eg, 100), 25 * U) THEN 90
         ELSE IF Gt(Times(eg, 100), 15 * U) THEN 75
         ELSE IF Gt(Times(eg, 100), 5 * U) THEN 55
         ELSE IF Gt(eg, 0) THEN 40
         ELSE 25)

GrossMarginPoint(d) ==
    LET gm == Get(d.grossMargins) IN
    When(Truthy(gm), IsNumber(gm),
         IF Gt(Times(gm, 100), 50 * U) THEN 85
         ELSE IF Gt(Times(gm, 100), 30 * U) THEN 70
         ELSE IF Gt(Times(gm, 100), 20 * U) THEN 50
         ELSE 30)

GrowthPoints(d, b) ==
    Join(RevGrowthPoint(d, b), Join(EarningsGrowthPoint(d), GrossMarginPoint(d)))

-----------------------------------------------------------------------------
(* _analyze_momentum *)

\* one performance figure (already in percent), its point multiplied by the
\* weight w10 / 10
PerfPoint(x, w10) ==
    LET perf == Get(x) IN
    When(IsNotNone(perf), IsNumber(perf),
         (w10 * (IF Gt(perf, 10 * U) THEN 90
                 ELSE IF Gt(perf, 5 * U) THEN 75
                 ELSE IF Gt(perf, 0) THEN 60
                 ELSE IF Gt(perf, (-5) * U) THEN 40
                 ELSE 20)) \div 10)

\* price against the 50-day and 200-day averages, when all three are truthy
MovingAveragePoint(d) ==
    LET ma_50  == Get(d.fiftyDayAverage)
        ma_200 == Get(d.twoHundredDayAverage)
        price  == Get(d.currentPrice) IN
    When(Truthy(ma_50) /\ Truthy(ma_200) /\ Truthy(price),
         IsNumber(ma_50) /\ IsNumber(ma_200) /\ IsNumber(price),
         IF GtX(price, ma_50) /\ GtX(ma_50, ma_200) THEN 85
         ELSE IF GtX(price, ma_50) THEN 70
         ELSE IF GtX(price, ma_200) THEN 55
         ELSE 30)

MomentumPoints(d) ==
    Join(PerfPoint(d.performance_1w, 12), Join(PerfPoint(d.performance_1m, 10),
         Join(PerfPoint(d.performance_3m, 8), MovingAveragePoint(d))))

-----------------------------------------------------------------------------
(* _analyze_sentiment *)

\* str.lower() on the recommendation keys the model feeds
Lower(s) ==
    CASE s = "STRONG_BUY" -> "strong_buy"
      [] s = "Buy" -> "buy"
      [] OTHER -> s

\* rec_map.get(key, 50)
RecMap(key) ==
    CASE key = "strong_buy" -> 95
      [] key = "buy" -> 75
      [] key = "hold" -> 50
      [] key = "sell" -> 25
      [] key = "strong_sell" -> 5
      [] OTHER -> 50

RecKeyPoint(d) ==
    LET rec_key == GetOr(d.recommendationKey, "") IN
    IF TruthyS(rec_key) THEN Pt(RecMap(Lower(rec_key))) ELSE NoPt

\* ((target - current) / current) * 100 > k, for floats target and current # 0
\* (k in percent).  A NaN operand, or an infinite current, gives NaN.
UpsideGt(target, current, k) ==
    CASE target.t = "nan" \/ current.t # "num" -> FALSE
      [] target.t = "pinf" -> current.v > 0
      [] target.t = "ninf" -> current.v < 0
      [] OTHER -> IF current.v > 0
                  THEN (target.v - current.v) * 100 > k * current.v
                  ELSE (target.v - current.v) * 100 < k * current.v

\* the division by current raises ZeroDivisionError for a current of 0
UpsideDefined(target, current) ==
    IsNumber(target) /\ IsNumber(current) /\ ~(current.t = "num" /\ current.v = 0)

\* the guard with "and current" forgotten
HasTargetAndPriceNoPrice(d) == Truthy(Get(d.targetMeanPrice))

\* if target_mean and current
HasTargetAndPrice(d) == Truthy(Get(d.targetMeanPrice)) /\ Truthy(Get(d.currentPrice))

TargetPoint(d) ==
    LET target  == Get(d.targetMeanPrice)
        current == Get(d.currentPrice) IN
    When(HasTargetAndPrice(d), UpsideDefined(target, current),
         IF UpsideGt(target, current, 30) THEN 95
         ELSE IF UpsideGt(target, current, 15) THEN 80
         ELSE IF UpsideGt(target, current, 5) THEN 65
         ELSE IF UpsideGt(target, current, -5) THEN 45
         ELSE 25)

InstitutionsPoint(d) ==
    LET inst == Get(d.heldPercentInstitutions) IN
    When(Truthy(inst), IsNumber(inst),
         IF Gt(inst, 700) THEN 70
         ELSE IF Gt(inst, 500) THEN 60
         ELSE 45)

ShortInterestPoint(d) ==
    LET short == Get(d.shortPercentOfFloat) IN
    When(Truthy(short), IsNumber(short),
         IF Lt(short, 50) THEN 75
         ELSE IF Lt(short, 100) THEN 60
         ELSE IF Gt(short, 200) THEN 30
         ELSE 50)

SentimentPoints(d) ==
    Join(RecKeyPoint(d), Join(TargetPoint(d),
         Join(InstitutionsPoint(d), ShortInterestPoint(d))))

-----------------------------------------------------------------------------
(* _get_recommendation, on a score in units of 1/6000 *)

\* the thresholds exclusive at the lower bound
GetRecommendationStrict(score) ==
    IF score > 75 * OS THEN "STRONG_BUY"
    ELSE IF score > 60 * OS THEN "BUY"
    ELSE IF score > 40 * OS THEN "HOLD"
    ELSE IF score > 25 * OS THEN "SELL"
    ELSE "STRONG_SELL"

GetRecommendation(score) ==
    IF score >= 75 * OS THEN "STRONG_BUY"
    ELSE IF score >= 60 * OS THEN "BUY"
    ELSE IF score >= 40 * OS THEN "HOLD"
    ELSE IF score >= 25 * OS THEN "SELL"
    ELSE "STRONG_SELL"

-----------------------------------------------------------------------------
(* Insight lists.  An item is named by the condition that appends it. *)

Min(a, b) == IF a < b THEN a ELSE b

\* s[-n:], the last n items
LastItems(s, n) == SubSeq(s, Len(s) - Min(n, Len(s)) + 1, Len(s))

\* s[:n], the first n items
Take(s, n) == SubSeq(s, 1, Min(n, Len(s)))

\* "if x and <comparison on x>: append(item)"
Item(test, operandsOk, holds, item) ==
    IF ~test THEN NoPt ELSE IF ~operandsOk THEN Raise
    ELSE IF holds THEN Pt(item) ELSE NoPt

\* the conditions of _find_strengths_weaknesses that append to strengths,
\* in the order they are evaluated
StrengthsFired(d, b) ==
    LET pe     == Get(d.trailingPE)
        g      == Get(d.revenueGrowth)
        margin == Get(d.profitMargins)
        roe    == Get(d.returnOnEquity)
        peg    == Get(d.pegRatio) IN
    Join(Item(Truthy(pe), IsNumber(pe), Lt(pe, b.pe_good), "pe"),
    Join(Item(Truthy(g), IsNumber(g),
              Gt(Times(g, 100 * 10), b.growth_avg * 15), "growth"),
    Join(Item(Truthy(margin), IsNumber(margin),
              Gt(Times(margin, 100 * 10), b.margin_avg * 13), "margins"),
    Join(Item(Truthy(roe), IsNumber(roe),
              Gt(Times(roe, 100 * 10), b.roe_avg * 13), "roe"),
         Item(Truthy(peg), IsNumber(peg), Lt(peg, 1 * U), "peg")))))

\* the conditions that append to weaknesses (each the elif of a strength)
WeaknessesFired(d, b) ==
    LET pe     == Get(d.trailingPE)
        g      == Get(d.revenueGrowth)
        margin == Get(d.profitMargins)
        roe    == Get(d.returnOnEquity) IN
    Join(Item(Truthy(pe), IsNumber(pe),
              ~Lt(pe, b.pe_good) /\ Gt(pe, b.pe_bad), "pe"),
    Join(Item(Truthy(g), IsNumber(g),
              /\ ~Gt(Times(g, 100 * 10), b.growth_avg * 15)
              /\ Lt(Times(g, 100 * 10), b.growth_avg * 5), "growth"),
    Join(Item(Truthy(margin), IsNumber(margin),
              /\ ~Gt(Times(margin, 100 * 10), b.margin_avg * 13)
              /\ Lt(Times(margin, 100 * 10), b.margin_avg * 7), "margins"),
         Item(Truthy(roe), IsNumber(roe),
              /\ ~Gt(Times(roe, 100 * 10), b.roe_avg * 13)
              /\ Lt(Times(roe, 100 * 10), b.roe_avg * 7), "roe"))))

\* the conditions of _find_red_flags, in order
RedFlagsFired(d, b) ==
    LET de      == Get(d.debtToEquity)
        fcf     == Get(d.freeCashflow)
        short   == Get(d.shortPercentOfFloat)
        g       == Get(d.revenueGrowth)
        ma_200  == Get(d.twoHundredDayAverage)
        current == Get(d.currentPrice) IN
    Join(Item(Truthy(de), IsNumber(de), Gt(de, b.debt_equity_ok * 2), "debt"),
    Join(Item(Truthy(fcf), IsNumber(fcf), Lt(fcf, 0), "fcf"),
    Join(Item(Truthy(short), IsNumber(short), Gt(short, 150), "short"),
    Join(Item(Truthy(g), IsNumber(g), Lt(g, -50), "revenue"),
         Item(Truthy(ma_200) /\ Truthy(current),
              IsNumber(ma_200) /\ IsNumber(current),
              LtX(Times(current, 10), Times(ma_200, 9)), "ma200")))))

\* the conditions of _find_catalysts, in order
CatalystsFired(d) ==
    LET perf_3m == Get(d.performance_3m)
        target  == Get(d.targetMeanPrice)
        current == Get(d.currentPrice)
        peg     == Get(d.pegRatio)
        g       == Get(d.revenueGrowth)
        gm      == Get(d.grossMargins)
        rec_key == GetOr(d.recommendationKey, "") IN
    Join(Item(Truthy(perf_3m), IsNumber(perf_3m), Gt(perf_3m, 15 * U), "momentum"),
    Join(Item(HasTargetAndPrice(d), UpsideDefined(target, current),
              UpsideGt(target, current, 20), "upside"),
    Join(Item(Truthy(peg), IsNumber(peg),
              Lt(peg, 1200) /\ Truthy(g) /\ Gt(g, 100), "peg_growth"),
    Join(Item(Truthy(gm), IsNumber(gm), Gt(gm, 400), "gross_margin"),
         IF rec_key = "strong_buy" THEN Pt("strong_buy") ELSE NoPt))))

\* the caps kept by the slices [:3], [:3], [:4], [:4]
TopStrengthsLast(fired) == LastItems(fired, 3)

TopStrengths(fired)  == Take(fired, 3)
TopWeaknesses(fired) == Take(fired, 3)
TopRedFlags(fired)   == Take(fired, 4)
TopCatalysts(fired)  == Take(fired, 4)

-----------------------------------------------------------------------------
(* _sector_comparison: the bucket of each entry, "-" for a key not set *)

PEBucket(d, b) ==
    LET pe == Get(d.trailingPE) IN
    IF ~Truthy(pe) THEN "-"
    ELSE IF /\ pe.t = "num"
            /\ (pe.v - b.pe_avg) * 100 < 10 * b.pe_avg
            /\ (b.pe_avg - pe.v) * 100 < 10 * b.pe_avg THEN "approx"
    ELSE IF Lt(pe, b.pe_avg) THEN "cheaper"
    ELSE "pricier"

MarginBucket(d, b) ==
    LET margin == Get(d.profitMargins) IN
    IF ~Truthy(margin) THEN "-"
    ELSE IF Gt(Times(margin, 100), b.margin_avg) THEN "better"
    ELSE "weaker"

GrowthBucket(d, b) ==
    LET g == Get(d.revenueGrowth) IN
    IF ~Truthy(g) THEN "-"
    ELSE IF Gt(Times(g, 100 * 10), b.growth_avg * 12) THEN "fast"
    ELSE IF Gt(Times(g, 100), b.growth_avg) THEN "good"
    ELSE "slow"

SectorComparison(d, b) ==
    [pe |-> PEBucket(d, b), margins |-> MarginBucket(d, b),
     growth |-> GrowthBucket(d, b)]

-----------------------------------------------------------------------------
(* _generate_summary: the tone bucket and the score as "{score:.0f}" prints it *)

\* round to the nearest integer, ties to even
RoundHalfEven(score) ==
    LET q == score \div OS
        r == score % OS IN
    IF 2 * r < OS THEN q
    ELSE IF 2 * r > OS THEN q + 1
    ELSE IF q % 2 = 0 THEN q ELSE q + 1

Tone(score) ==
    IF score >= 75 * OS THEN "bardzo atrakcyjna"
    ELSE IF score >= 60 * OS THEN "atrakcyjna"
    ELSE IF score >= 40 * OS THEN "neutralna"
    ELSE IF score >= 25 * OS THEN "slaba"
    ELSE "bardzo slaba"

GenerateSummary(score, sec) ==
    [sector |-> sec, tone |-> Tone(score), shown |-> RoundHalfEven(score)]

-----------------------------------------------------------------------------
(* analyze *)

\* the weights with momentum at 0.25: they sum to 1.10
OverallHeavy(valuation, health, growth, momentum, sentiment) ==
    25 * valuation + 20 * health + 25 * growth + 25 * momentum + 15 * sentiment

\* valuation*0.25 + health*0.20 + growth*0.25 + momentum*0.15 + sentiment*0.15
Overall(valuation, health, growth, momentum, sentiment) ==
    25 * valuation + 20 * health + 25 * growth + 15 * momentum + 15 * sentiment

\* the record analyze() returns for data d of an analyzer whose fields are
\* sec, ind and b; err when a step raises instead
Analysis(d, sec, ind, b) ==
    LET v  == ValuationPoints(d, b)
        h  == HealthPoints(d, b)
        g  == GrowthPoints(d, b)
        m  == MomentumPoints(d)
        s  == SentimentPoints(d)
        st == StrengthsFired(d, b)
        wk == WeaknessesFired(d, b)
        rf == RedFlagsFired(d, b)
        ct == CatalystsFired(d)
        overall == Overall(Mean(v.pts), Mean(h.pts), Mean(g.pts),
                           Mean(m.pts), Mean(s.pts)) IN
    [err |-> \/ v.err \/ h.err \/ g.err \/ m.err \/ s.err
             \/ st.err \/ wk.err \/ rf.err \/ ct.err,
     res |-> [overall_score          |-> overall,
              recommendation         |-> GetRecommendation(overall),
              sector                 |-> sec,
              industry               |-> ind,
              valuation_score        |-> Mean(v.pts),
              financial_health_score |-> Mean(h.pts),
              growth_score           |-> Mean(g.pts),
              momentum_score         |-> Mean(m.pts),
              sentiment_score        |-> Mean(s.pts),
              strengths              |-> TopStrengths(st.pts),
              weaknesses             |-> TopWeaknesses(wk.pts),
              red_flags              |-> TopRedFlags(rf.pts),
              catalysts              |-> TopCatalysts(ct.pts),
              sector_comparison      |-> SectorComparison(d, b),
              summary                |-> GenerateSummary(overall, sec)]]

\* no AnalysisResult yet
NoResult ==
    [overall_score |-> -1, recommendation |-> "", sector |-> "", industry |-> "",
     valuation_score |-> -1, financial_health_score |-> -1, growth_score |-> -1,
     momentum_score |-> -1, sentiment_score |-> -1,
     strengths |-> <<>>, weaknesses |-> <<>>, red_flags |-> <<>>, catalysts |-> <<>>,
     sector_comparison |-> [pe |-> "-", margins |-> "-", growth |-> "-"],
     summary |-> [sector |-> "", tone |-> "", shown |-> -1]]

-----------------------------------------------------------------------------
(* The fundamentals mappings the analyzer is run on.  Finite values are in *)
(* thousandths: 20000 is a P/E of 20, 300 a revenue growth of 0.30.        *)

Nums(S) == {Num(n) : n \in S}

\* the mapping with no key at all
Empty ==
    [sector |-> ABSENT_S, industry |-> ABSENT_S, recommendationKey |-> ABSENT_S,
     trailingPE |-> Absent, forwardPE |-> Absent, priceToBook |-> Absent,
     pegRatio |-> Absent, returnOnEquity |-> Absent, returnOnAssets |-> Absent,
     debtToEquity |-> Absent, profitMargins |-> Absent, freeCashflow |-> Absent,
     revenueGrowth |-> Absent, earningsGrowth |-> Absent, grossMargins |-> Absent,
     performance_1w |-> Absent, performance_1m |-> Absent,
     performance_3m |-> Absent, fiftyDayAverage |-> Absent,
     twoHundredDayAverage |-> Absent, currentPrice |-> Absent,
     targetMeanPrice |-> Absent, heldPercentInstitutions |-> Absent,
     shortPercentOfFloat |-> Absent]

NumericKeys == DOMAIN Empty \ {"sector", "industry", "recommendationKey"}

\* a known sector and no sector
TwoSectors == {"Technology", ABSENT_S}

ValuationInputs(d) ==
    \E sec \in TwoSectors,
        pe  \in {Absent} \cup Nums({15000, 20000, 25000, 40000, 60000, 70000}),
        pb  \in {Absent} \cup Nums({2000, 3000, 5000, 6000, 8000, 12000}),
        peg \in {Absent} \cup Nums({800, 1000, 1500, 2000}),
        fpe \in {Absent} \cup Nums({18000, 20000, 36000}) :
        d = [Empty EXCEPT !.sector = sec, !.trailingPE = pe, !.priceToBook = pb,
                      !.pegRatio = peg, !.forwardPE = fpe]

HealthInputs(d) ==
    \E sec    \in TwoSectors,
        roe    \in {Absent} \cup Nums({300, 250, 150, 100}),
        roa    \in {Absent} \cup Nums({200, 150, 80, 50}),
        de     \in {Absent, None} \cup Nums({0, 500, 1000, 2000, 4000}),
        margin \in {Absent} \cup Nums({350, 300, 250, 100}),
        fcf    \in {Absent} \cup Nums({5000, -5000}) :
        d = [Empty EXCEPT !.sector = sec, !.returnOnEquity = roe, !.returnOnAssets = roa,
                      !.debtToEquity = de, !.profitMargins = margin,
                      !.freeCashflow = fcf]

GrowthInputs(d) ==
    \E sec \in TwoSectors,
        g   \in {Absent} \cup Nums({0, 400, 300, 180, 150, 50, -100}),
        eg  \in {Absent} \cup Nums({0, 300, 200, 100, 30, -100}),
        gm  \in {Absent} \cup Nums({600, 450, 250, 100}) :
        d = [Empty EXCEPT !.sector = sec, !.revenueGrowth = g, !.earningsGrowth = eg,
                      !.grossMargins = gm]

MomentumInputs(d) ==
    \E w      \in {Absent} \cup Nums({0, 11000, 6000, 1000, -6000}),
        m      \in {Absent} \cup Nums({11000, 1000, -6000}),
        q      \in {Absent} \cup Nums({0, 20000, -6000}),
        ma_50  \in {Absent} \cup Nums({90000, 110000}),
        ma_200 \in {Absent} \cup Nums({0, 80000, 120000}),
        price  \in {Absent} \cup Nums({0, 100000}) :
        d = [Empty EXCEPT !.performance_1w = w, !.performance_1m = m,
                      !.performance_3m = q, !.fiftyDayAverage = ma_50,
                      !.twoHundredDayAverage = ma_200, !.currentPrice = price]

SentimentInputs(d) ==
    \E rec    \in {ABSENT_S, NONE_S, "", "strong_buy", "buy", "hold", "sell",
                    "strong_sell", "STRONG_BUY", "underperform"},
        target \in {Absent} \cup Nums({0, 131000, 130000, 106000, 90000}),
        price  \in {Absent} \cup Nums({0, 100000}),
        inst   \in {Absent} \cup Nums({800, 600, 300}),
        short  \in {Absent} \cup Nums({30, 70, 150, 250}) :
        d = [Empty EXCEPT !.recommendationKey = rec, !.targetMeanPrice = target,
                      !.currentPrice = price, !.heldPercentInstitutions = inst,
                      !.shortPercentOfFloat = short]

StrengthInputs(d) ==
    \E sec    \in TwoSectors,
        pe     \in {Absent} \cup Nums({15000, 40000, 70000}),
        g      \in {Absent} \cup Nums({400, 150, 30}),
        margin \in {Absent} \cup Nums({350, 250, 100}),
        roe    \in {Absent} \cup Nums({300, 150, 100}),
        peg    \in {Absent} \cup Nums({800, 2000}) :
        d = [Empty EXCEPT !.sector = sec, !.trailingPE = pe, !.revenueGrowth = g,
                      !.profitMargins = margin, !.returnOnEquity = roe,
                      !.pegRatio = peg]

RedFlagInputs(d) ==
    \E sec    \in TwoSectors,
        de     \in {Absent} \cup Nums({0, 4000}),
        fcf    \in {Absent} \cup Nums({5000, -5000}),
        short  \in {Absent} \cup Nums({70, 250}),
        g      \in {Absent} \cup Nums({50, -100}),
        ma_200 \in {Absent} \cup Nums({0, 120000}),
        price  \in {Absent} \cup Nums({0, 100000}) :
        d = [Empty EXCEPT !.sector = sec, !.debtToEquity = de, !.freeCashflow = fcf,
                      !.shortPercentOfFloat = short, !.revenueGrowth = g,
                      !.twoHundredDayAverage = ma_200, !.currentPrice = price]

CatalystInputs(d) ==
    \E q      \in {Absent} \cup Nums({0, 20000}),
        target \in {Absent} \cup Nums({0, 131000}),
        price  \in {Absent} \cup Nums({0, 100000}),
        peg    \in {Absent} \cup Nums({800, 2000}),
        g      \in {Absent} \cup Nums({400, 50}),
        gm     \in {Absent} \cup Nums({600, 100}),
        rec    \in {ABSENT_S, "strong_buy", "buy"} :
        d = [Empty EXCEPT !.performance_3m = q, !.targetMeanPrice = target,
                      !.currentPrice = price, !.pegRatio = peg,
                      !.revenueGrowth = g, !.grossMargins = gm,
                      !.recommendationKey = rec]

\* one snapshot per category at its best, at its worst, or without any metric
\* of the category: the mappings on which the overall score is extreme
CategoryLevels == {"none", "best", "worst"}

Profile(val, hea, gro, mom, sen) ==
    [Empty EXCEPT
        !.sector = "Technology",
        !.pegRatio = CASE val = "best" -> Num(800) [] val = "worst" -> Absent
                       [] OTHER -> Absent,
        !.trailingPE = IF val = "worst" THEN Num(70000) ELSE Absent,
        !.returnOnEquity = CASE hea = "best" -> Num(300) [] hea = "worst" -> Absent
                             [] OTHER -> Absent,
        !.freeCashflow = IF hea = "worst" THEN Num(-5000) ELSE Absent,
        !.revenueGrowth = CASE gro = "best" -> Num(400) [] gro = "worst" -> Num(-100)
                            [] OTHER -> Absent,
        !.performance_1w = CASE mom = "best" -> Num(11000) [] OTHER -> Absent,
        !.performance_3m = IF mom = "worst" THEN Num(-6000) ELSE Absent,
        !.recommendationKey = CASE sen = "best" -> "strong_buy"
                                [] sen = "worst" -> "strong_sell"
                                [] OTHER -> ABSENT_S]

ProfileInputs(d) ==
    \E val \in CategoryLevels, hea \in CategoryLevels, gro \in CategoryLevels,
       mom \in CategoryLevels, sen \in CategoryLevels :
        d = Profile(val, hea, gro, mom, sen)

\* a snapshot with every metric reported, and the one of the worked example
Typical ==
    [sector |-> "Technology", industry |-> "Consumer Electronics",
     recommendationKey |-> "buy",
     trailingPE |-> Num(40000), forwardPE |-> Num(36000), priceToBook |-> Num(6000),
     pegRatio |-> Num(1500), returnOnEquity |-> Num(250), returnOnAssets |-> Num(80),
     debtToEquity |-> Num(1000), profitMargins |-> Num(300),
     freeCashflow |-> Num(5000), revenueGrowth |-> Num(180),
     earningsGrowth |-> Num(100), grossMargins |-> Num(450),
     performance_1w |-> Num(1000), performance_1m |-> Num(6000),
     performance_3m |-> Num(11000), fiftyDayAverage |-> Num(90000),
     twoHundredDayAverage |-> Num(80000), currentPrice |-> Num(100000),
     targetMeanPrice |-> Num(106000), heldPercentInstitutions |-> Num(600),
     shortPercentOfFloat |-> Num(70)]

WorkedExample ==
    [Empty EXCEPT !.sector = "Technology", !.trailingPE = Num(20000),
                  !.priceToBook = Num(5000), !.pegRatio = Num(800),
                  !.revenueGrowth = Num(300), !.profitMargins = Num(250),
                  !.returnOnEquity = Num(250), !.debtToEquity = Num(500),
                  !.recommendationKey = "strong_buy",
                  !.targetMeanPrice = Num(250000), !.currentPrice = Num(200000)]

\* a degenerate value (None, zero, NaN, an infinity) under one key of a
\* snapshot that is otherwise empty, typical, or the worked example
DegenerateValues == {None, Num(0), NaN, PosInf, NegInf}

DegenerateInputs(d) ==
    \E base \in {Empty, Typical, WorkedExample}, k \in NumericKeys,
        x \in DegenerateValues :
        d = [base EXCEPT ![k] = x]

\* the sector and industry keys: known, unknown, None, missing
SectorInputs(d) ==
    \E base \in {Empty, Typical, WorkedExample},
        sec \in {"Technology", "Finance", "Energy", "Atlantis", NONE_S, ABSENT_S},
        ind \in {"Banks", NONE_S, ABSENT_S} :
        d = [base EXCEPT !.sector = sec, !.industry = ind]

Inputs(d) ==
    \/ ValuationInputs(d) \/ HealthInputs(d) \/ GrowthInputs(d)
    \/ MomentumInputs(d) \/ SentimentInputs(d) \/ StrengthInputs(d)
    \/ RedFlagInputs(d) \/ CatalystInputs(d) \/ ProfileInputs(d)
    \/ DegenerateInputs(d) \/ SectorInputs(d)

-----------------------------------------------------------------------------
(* The analyzer: StockAnalyzer(data), then analyze() *)

\* no indicator entry point is called
IndicatorsIdle ==
    /\ df = [cols |-> {}, bars |-> <<>>]
    /\ entry = ""
    /\ out = <<>>
    /\ ipc = "idle"

\* no cache is in use
CacheIdle ==
    /\ cache = <<>>
    /\ now = 0
    /\ last = <<>>

\* no portfolio is in use
PortfolioIdle ==
    /\ positions = <<>>
    /\ file = <<>>
    /\ reply = <<>>

Init ==
    /\ Inputs(data)
    /\ pc = "new"
    /\ sector = ""
    /\ industry = ""
    /\ benchmarks = DEFAULT_BENCHMARK
    /\ result = NoResult
    /\ result2 = NoResult
    /\ recScore = 0
    /\ recOut = "none"
    /\ IndicatorsIdle
    /\ CacheIdle
    /\ PortfolioIdle

\* __init__
Construct ==
    /\ pc = "new"
    /\ sector' = GetOr(data.sector, "Unknown")
    /\ industry' = GetOr(data.industry, "Unknown")
    /\ benchmarks' = BenchmarkLookup(GetOr(data.sector, "Unknown"))
    /\ pc' = "ready"
    /\ UNCHANGED <<data, result, result2, recScore, recOut>>
    /\ UNCHANGED <<indicatorVars, cacheVars, portfolioVars>>

\* analyze() that writes an adjusted P/E average back into self.benchmarks
\* (the row of the shared table)
AnalyzeStoringAverage ==
    /\ pc = "ready"
    /\ LET a == Analysis(data, sector, industry, benchmarks) IN
         IF a.err
         THEN pc' = "raised" /\ result' = result
         ELSE pc' = "done" /\ result' = a.res
    /\ benchmarks' = [benchmarks EXCEPT !.pe_avg = @ + U]
    /\ UNCHANGED <<data, sector, industry, result2, recScore, recOut>>
    /\ UNCHANGED <<indicatorVars, cacheVars, portfolioVars>>

\* analyze(): returns the record, or raises; it assigns to no attribute of
\* the analyzer and to no entry of self.data or self.benchmarks
Analyze ==
    /\ pc = "ready"
    /\ LET a == Analysis(data, sector, industry, benchmarks) IN
         IF a.err
         THEN pc' = "raised" /\ result' = result
         ELSE pc' = "done" /\ result' = a.res
    /\ UNCHANGED <<data, sector, industry, benchmarks, result2, recScore, recOut>>
    /\ UNCHANGED <<indicatorVars, cacheVars, portfolioVars>>

\* a second analyze() on the same analyzer
AnalyzeAgain ==
    /\ pc = "done"
    /\ LET a == Analysis(data, sector, industry, benchmarks) IN
         IF a.err
         THEN pc' = "raised" /\ result2' = result2
         ELSE pc' = "again" /\ result2' = a.res
    /\ UNCHANGED <<data, sector, industry, benchmarks, result, recScore, recOut>>
    /\ UNCHANGED <<indicatorVars, cacheVars, portfolioVars>>

Next == Construct \/ Analyze \/ AnalyzeAgain

Spec == Init /\ [][Next]_vars

-----------------------------------------------------------------------------
(* _get_recommendation called directly on a score *)

\* the largest score fed to _get_recommendation, in points
MaxRecScore == 110

\* quarter points from -5 up
RecScores == {k * (OS \div 4) - 5 * OS : k \in 0 .. 4 * MaxRecScore}

RecommendationLevels == {"STRONG_BUY", "BUY", "HOLD", "SELL", "STRONG_SELL"}

InitRec ==
    /\ data = Empty
    /\ pc = "new"
    /\ sector = ""
    /\ industry = ""
    /\ benchmarks = DEFAULT_BENCHMARK
    /\ result = NoResult
    /\ result2 = NoResult
    /\ recScore \in RecScores
    /\ recOut = "none"
    /\ IndicatorsIdle
    /\ CacheIdle
    /\ PortfolioIdle

Recommend ==
    /\ recOut = "none"
    /\ recOut' = GetRecommendation(recScore)
    /\ UNCHANGED <<data, pc, sector, industry, benchmarks, result, result2, recScore>>
    /\ UNCHANGED <<indicatorVars, cacheVars, portfolioVars>>

NextRec == Recommend

SpecRecommendation == InitRec /\ [][NextRec]_vars

-----------------------------------------------------------------------------
(* The indicator engine: floats and pandas Series.                          *)
(*                                                                          *)
(* A cell of a column is a float: NaN, an infinity, or a finite number held *)
(* as the exact fraction n/d in lowest terms (prices and volumes are whole  *)
(* numbers, so every mean and ratio of the engine is a fraction).  A finite *)
(* number whose fraction does not fit the model's integers is held as       *)
(* FSome: finite, magnitude not tracked.  A Series is a sequence of cells.  *)

\* the widest numerator or denominator kept exact
Wide == 2^29

F(n, d) == [t |-> "num",  n |-> n, d |-> d]
FNaN    == [t |-> "nan",  n |-> 0, d |-> 1]
FPosInf == [t |-> "pinf", n |-> 0, d |-> 1]
FNegInf == [t |-> "ninf", n |-> 0, d |-> 1]
FSome   == [t |-> "some", n |-> 0, d |-> 1]

FInt(k) == F(k, 1)

Abs(k) == IF k < 0 THEN -k ELSE k

RECURSIVE GCD(_, _)
GCD(a, b) == IF b = 0 THEN a ELSE GCD(b, a % b)

\* a * b fits
Fits(a, b) == a = 0 \/ b = 0 \/ Abs(a) <= Wide \div Abs(b)

\* the fraction n/d (d > 0) in lowest terms
Frac(n, d) ==
    LET g == GCD(Abs(n), d) IN
    IF Abs(n) > Wide \/ d > Wide THEN FSome ELSE F(n \div g, d \div g)

IsNaN(x)    == x.t = "nan"
IsInf(x)    == x.t \in {"pinf", "ninf"}
IsFinite(x) == x.t \in {"num", "some"}

\* -x
FNeg(x) ==
    CASE x.t = "num"  -> F(-x.n, x.d)
      [] x.t = "pinf" -> FNegInf
      [] x.t = "ninf" -> FPosInf
      [] OTHER        -> x

\* x + y
FAdd(x, y) ==
    CASE IsNaN(x) \/ IsNaN(y) -> FNaN
      [] IsInf(x) /\ IsInf(y) -> IF x.t = y.t THEN x ELSE FNaN
      [] IsInf(x) -> x
      [] IsInf(y) -> y
      [] x.t = "some" \/ y.t = "some" -> FSome
      [] OTHER ->
           LET g  == GCD(x.d, y.d)
               xd == x.d \div g
               yd == y.d \div g IN
           IF Fits(x.n, yd) /\ Fits(y.n, xd) /\ Fits(xd, y.d)
           THEN Frac(x.n * yd + y.n * xd, xd * y.d)
           ELSE FSome

\* x - y
FSub(x, y) == FAdd(x, FNeg(y))

\* the sign of a float that is not NaN and not FSome: -1, 0, 1
Sign(x) ==
    CASE x.t = "pinf" -> 1
      [] x.t = "ninf" -> -1
      [] OTHER -> IF x.n > 0 THEN 1 ELSE IF x.n < 0 THEN -1 ELSE 0

FSigned(k) == IF k > 0 THEN FPosInf ELSE FNegInf

\* x * y
FMul(x, y) ==
    CASE IsNaN(x) \/ IsNaN(y) -> FNaN
      [] x.t = "some" \/ y.t = "some" -> FSome
      [] IsInf(x) \/ IsInf(y) ->
           IF Sign(x) * Sign(y) = 0 THEN FNaN ELSE FSigned(Sign(x) * Sign(y))
      [] OTHER ->
           LET g1 == GCD(Abs(x.n), y.d)
               g2 == GCD(Abs(y.n), x.d)
               a  == x.n \div g1
               b  == y.n \div g2
               c  == x.d \div g2
               e  == y.d \div g1 IN
           IF Fits(a, b) /\ Fits(c, e) THEN Frac(a * b, c * e) ELSE FSome

\* x / y: a zero divisor gives an infinity, or NaN for 0/0
FDiv(x, y) ==
    CASE IsNaN(x) \/ IsNaN(y) -> FNaN
      [] IsInf(x) /\ IsInf(y) -> FNaN
      [] x.t = "some" \/ y.t = "some" -> FSome
      [] IsInf(y) -> FInt(0)
      [] IsInf(x) -> IF y.n < 0 THEN FNeg(x) ELSE x
      [] y.n = 0 -> IF x.n = 0 THEN FNaN ELSE FSigned(x.n)
      [] OTHER ->
           FMul(x, IF y.n > 0 THEN F(y.d, y.n) ELSE F(-y.d, -y.n))

\* x > y and x < y on floats the model holds exactly (false beside NaN)
FGt(x, y) == ~IsNaN(x) /\ ~IsNaN(y) /\ Sign(FSub(x, y)) = 1
FLt(x, y) == FGt(y, x)

\* abs(x)
FAbs(x) == IF IsNaN(x) \/ x.t = "some" THEN x
           ELSE IF Sign(x) < 0 THEN FNeg(x) ELSE x

\* np.maximum(x, y): NaN beside either operand
NpMaximum(x, y) ==
    IF IsNaN(x) \/ IsNaN(y) THEN FNaN ELSE IF FGt(y, x) THEN y ELSE x

\* max over a row that skips NaN (DataFrame.max(axis=1))
SkipNaMax(x, y) ==
    IF IsNaN(x) THEN y ELSE IF IsNaN(y) THEN x ELSE IF FGt(y, x) THEN y ELSE x

\* a Series given cell by cell, as the sequence of its cells
Series(cells) == cells \o <<>>

\* elementwise operations on Series of equal length
Map1(Op(_), s)     == Series([i \in 1 .. Len(s) |-> Op(s[i])])
Map2(Op(_, _), s, r) == Series([i \in 1 .. Len(s) |-> Op(s[i], r[i])])
Scale(k, s)        == Series([i \in 1 .. Len(s) |-> FMul(FInt(k), s[i])])
Const(k, s)        == Series([i \in 1 .. Len(s) |-> FInt(k)])

\* Series.shift(): the value of the bar before, NaN at the first bar
Shift(s) == Series([i \in 1 .. Len(s) |-> IF i = 1 THEN FNaN ELSE s[i - 1]])

\* Series.diff()
Diff(s) == Map2(FSub, s, Shift(s))

\* Series.where(cond, 0) for the conditions the engine uses: the cell is kept
\* where it compares as said with the cell of r, and replaced by 0 elsewhere
\* (also where the comparison involves NaN)
WhereGt(s, a, r) ==
    Series([i \in 1 .. Len(s) |-> IF FGt(a[i], r[i]) THEN s[i] ELSE FInt(0)])
WhereLt(s, a, r) ==
    Series([i \in 1 .. Len(s) |-> IF FLt(a[i], r[i]) THEN s[i] ELSE FInt(0)])

RECURSIVE SumOf(_)
SumOf(w) == IF w = <<>> THEN FInt(0) ELSE FAdd(Head(w), SumOf(Tail(w)))

MeanOf(w) == FDiv(SumOf(w), FInt(Len(w)))

RECURSIVE MaxOf(_)
MaxOf(w) == IF Len(w) = 1 THEN w[1]
            ELSE LET m == MaxOf(Tail(w)) IN IF FGt(m, w[1]) THEN m ELSE w[1]

RECURSIVE MinOf(_)
MinOf(w) == IF Len(w) = 1 THEN w[1]
            ELSE LET m == MinOf(Tail(w)) IN IF FLt(m, w[1]) THEN m ELSE w[1]

\* the sample standard deviation: 0 for a window of equal values, else a
\* square root, which the model does not evaluate
StdOf(w) == IF \A i \in 1 .. Len(w) : w[i] = w[1] THEN FInt(0) ELSE FSome

\* np.abs(x - x.mean()).mean()
MeanDeviationOf(w) ==
    LET m == MeanOf(w) IN
    MeanOf(Series([i \in 1 .. Len(w) |-> FAbs(FSub(w[i], m))]))

\* Series.rolling(window).agg(): NaN until the window holds `window` values
\* that are not NaN (min_periods defaults to the window)
Rolling(s, window, Agg(_)) ==
    Series([i \in 1 .. Len(s) |->
               IF i < window \/ \E j \in (i - window + 1) .. i : IsNaN(s[j])
               THEN FNaN
               ELSE Agg(SubSeq(s, i - window + 1, i))])

\* the same with min_periods = 1: a value from the first bar on
RollingPartial(s, window, Agg(_)) ==
    Series([i \in 1 .. Len(s) |->
               LET lo == IF i < window THEN 1 ELSE i - window + 1 IN
               IF \E j \in lo .. i : IsNaN(s[j]) THEN FNaN
               ELSE Agg(SubSeq(s, lo, i))])

\* Series.cumsum()
RECURSIVE Cumsum(_)
Cumsum(s) ==
    IF s = <<>> THEN <<>>
    ELSE LET front == Cumsum(SubSeq(s, 1, Len(s) - 1)) IN
         Append(front, IF front = <<>> THEN s[Len(s)]
                       ELSE FAdd(front[Len(front)], s[Len(s)]))

\* Series.pct_change(periods)
PctChange(s, periods) ==
    Series([i \in 1 .. Len(s) |->
               IF i <= periods THEN FNaN
               ELSE FSub(FDiv(s[i], s[i - periods]), FInt(1))])

\* Series.ewm(alpha = an/ad, adjust).mean(), as the library computes it
\* (min_periods 0, ignore_na False): the state after the bars of s is the
\* weighted mean so far and the weight of the past
RECURSIVE EwmState(_, _, _, _)
EwmState(s, an, ad, adjust) ==
    IF Len(s) = 1 THEN [weighted |-> s[1], old_wt |-> FInt(1)]
    ELSE LET prev   == EwmState(SubSeq(s, 1, Len(s) - 1), an, ad, adjust)
             cur    == s[Len(s)]
             decay  == F(ad - an, ad)
             new_wt == IF adjust THEN FInt(1) ELSE F(an, ad)
             old_wt == FMul(prev.old_wt, decay) IN
         IF IsNaN(prev.weighted)
         THEN [weighted |-> cur, old_wt |-> prev.old_wt]
         ELSE IF IsNaN(cur)
         THEN [weighted |-> prev.weighted, old_wt |-> old_wt]
         ELSE [weighted |->
                  IF prev.weighted = cur THEN cur
                  ELSE FDiv(FAdd(FMul(old_wt, prev.weighted), FMul(new_wt, cur)),
                            FAdd(old_wt, new_wt)),
               old_wt |-> IF adjust THEN FAdd(old_wt, new_wt) ELSE FInt(1)]

Ewm(s, an, ad, adjust) ==
    Series([i \in 1 .. Len(s) |->
               EwmState(SubSeq(s, 1, i), an, ad, adjust).weighted])

\* Series.ewm(span = n): alpha = 2 / (n + 1)
EwmSpan(s, n, adjust) == Ewm(s, 2, n + 1, adjust)

-----------------------------------------------------------------------------
(* EnhancedFinanceData: the indicator functions *)

\* data[name] as a Series
Col(f, name) == Series([i \in 1 .. Len(f.bars) |-> FInt(f.bars[i][name])])

\* 100 - (100 / (1 + ratio))
Oscillator(ratio) == FSub(FInt(100), FDiv(FInt(100), FAdd(FInt(1), ratio)))

\* _calculate_rsi with a zero mean loss replaced by NaN before the division
CalculateRsiGuarded(prices, window) ==
    LET delta == Diff(prices)
        zero  == Const(0, prices)
        gain  == Rolling(WhereGt(delta, delta, zero), window, MeanOf)
        loss  == Rolling(Map1(FNeg, WhereLt(delta, delta, zero)), window, MeanOf)
        rs    == Series([i \in 1 .. Len(prices) |->
                    IF loss[i] = FInt(0) THEN FNaN ELSE FDiv(gain[i], loss[i])]) IN
    Map1(Oscillator, rs)

\* _calculate_rsi (the same statements are inlined in add_technical_indicators
\* and calculate_technical_indicators, and form calculate_rsi of the test)
CalculateRsi(prices, window) ==
    LET delta == Diff(prices)
        zero  == Const(0, prices)
        gain  == Rolling(WhereGt(delta, delta, zero), window, MeanOf)
        loss  == Rolling(Map1(FNeg, WhereLt(delta, delta, zero)), window, MeanOf)
        rs    == Map2(FDiv, gain, loss) IN
    Map1(Oscillator, rs)

\* _calculate_macd
CalculateMacd(prices) ==
    LET ema_fast == EwmSpan(prices, 12, TRUE)
        ema_slow == EwmSpan(prices, 26, TRUE)
        macd     == Map2(FSub, ema_fast, ema_slow)
        signal   == EwmSpan(macd, 9, TRUE) IN
    [MACD |-> macd, Signal |-> signal, Histogram |-> Map2(FSub, macd, signal)]

\* _calculate_bollinger_bands with rolling(window, min_periods=1)
CalculateBollingerBandsPartial(prices) ==
    LET sma == RollingPartial(prices, 20, MeanOf)
        std == RollingPartial(prices, 20, StdOf) IN
    [Middle |-> sma,
     Upper  |-> Map2(FAdd, sma, Scale(2, std)),
     Lower  |-> Map2(FSub, sma, Scale(2, std))]

\* _calculate_bollinger_bands
CalculateBollingerBands(prices) ==
    LET sma == Rolling(prices, 20, MeanOf)
        std == Rolling(prices, 20, StdOf) IN
    [Middle |-> sma,
     Upper  |-> Map2(FAdd, sma, Scale(2, std)),
     Lower  |-> Map2(FSub, sma, Scale(2, std))]

\* 100 * (close - lowest_low) / (highest_high - lowest_low)
PercentK(f, period) ==
    LET lowest_low   == Rolling(Col(f, "Low"), period, MinOf)
        highest_high == Rolling(Col(f, "High"), period, MaxOf) IN
    Map2(FDiv, Scale(100, Map2(FSub, Col(f, "Close"), lowest_low)),
               Map2(FSub, highest_high, lowest_low))

\* _calculate_kdj
CalculateKdj(f) ==
    LET rsv == PercentK(f, 9)
        k   == Ewm(rsv, 1, 3, TRUE)
        d   == Ewm(k, 1, 3, TRUE) IN
    [K |-> k, D |-> d, J |-> Map2(FSub, Scale(3, k), Scale(2, d))]

\* _calculate_atr: the true range is NaN at the first bar (np.maximum)
CalculateAtr(f, window) ==
    LET prev            == Shift(Col(f, "Close"))
        high_low        == Map2(FSub, Col(f, "High"), Col(f, "Low"))
        high_close_prev == Map1(FAbs, Map2(FSub, Col(f, "High"), prev))
        low_close_prev  == Map1(FAbs, Map2(FSub, Col(f, "Low"), prev))
        true_range      == Map2(NpMaximum, high_low,
                                Map2(NpMaximum, high_close_prev, low_close_prev)) IN
    Rolling(true_range, window, MeanOf)

\* _calculate_stochastic
CalculateStochastic(f) ==
    LET k_percent == PercentK(f, 14) IN
    [K |-> k_percent, D |-> Rolling(k_percent, 3, MeanOf)]

\* _calculate_williams_r
CalculateWilliamsR(f) ==
    LET highest_high == Rolling(Col(f, "High"), 14, MaxOf)
        lowest_low   == Rolling(Col(f, "Low"), 14, MinOf) IN
    Map2(FDiv, Scale(-100, Map2(FSub, highest_high, Col(f, "Close"))),
               Map2(FSub, highest_high, lowest_low))

\* (High + Low + Close) / 3
TypicalPrice(f) ==
    Map2(FDiv, Map2(FAdd, Map2(FAdd, Col(f, "High"), Col(f, "Low")), Col(f, "Close")),
               Const(3, f.bars))

\* _calculate_cci: (typical_price - sma) / (0.015 * mean_deviation)
CalculateCci(f) ==
    LET typical_price  == TypicalPrice(f)
        sma            == Rolling(typical_price, 20, MeanOf)
        mean_deviation == Rolling(typical_price, 20, MeanDeviationOf) IN
    Map2(FDiv, Map2(FSub, typical_price, sma),
               Series([i \in 1 .. Len(f.bars) |->
                          FMul(F(3, 200), mean_deviation[i])]))

\* _calculate_mfi (and the MFI statements of calculate_technical_indicators)
CalculateMfi(f) ==
    LET typical_price == TypicalPrice(f)
        money_flow    == Map2(FMul, typical_price, Col(f, "Volume"))
        prev          == Shift(typical_price)
        positive_flow == Rolling(WhereGt(money_flow, typical_price, prev), 14, SumOf)
        negative_flow == Rolling(WhereLt(money_flow, typical_price, prev), 14, SumOf) IN
    Map1(Oscillator, Map2(FDiv, positive_flow, negative_flow))

\* _calculate_obv, for a frame that has a first bar (on an empty frame the
\* assignment to obv.iloc[0] raises, see VolumeSteps)
RECURSIVE CalculateObv(_)
CalculateObv(f) ==
    LET n == Len(f.bars) IN
    IF n = 0 THEN <<>>
    ELSE IF n = 1 THEN <<FInt(f.bars[1].Volume)>>
    ELSE LET obv == CalculateObv([f EXCEPT !.bars = SubSeq(f.bars, 1, n - 1)])
             vol == FInt(f.bars[n].Volume) IN
         Append(obv,
                IF f.bars[n].Close > f.bars[n - 1].Close THEN FAdd(obv[n - 1], vol)
                ELSE IF f.bars[n].Close < f.bars[n - 1].Close THEN FSub(obv[n - 1], vol)
                ELSE obv[n - 1])

\* _calculate_vwap
CalculateVwap(f) ==
    Map2(FDiv, Cumsum(Map2(FMul, TypicalPrice(f), Col(f, "Volume"))),
               Cumsum(Col(f, "Volume")))

\* _calculate_pivot_points: from the high, low and close of the bar before
CalculatePivotPoints(f) ==
    LET prev_high  == Shift(Col(f, "High"))
        prev_low   == Shift(Col(f, "Low"))
        prev_close == Shift(Col(f, "Close"))
        pivot == Map2(FDiv, Map2(FAdd, Map2(FAdd, prev_high, prev_low), prev_close),
                            Const(3, f.bars)) IN
    [Pivot |-> pivot,
     R1 |-> Map2(FSub, Scale(2, pivot), prev_low),
     R2 |-> Map2(FAdd, pivot, Map2(FSub, prev_high, prev_low)),
     R3 |-> Map2(FAdd, prev_high, Scale(2, Map2(FSub, pivot, prev_low))),
     S1 |-> Map2(FSub, Scale(2, pivot), prev_high),
     S2 |-> Map2(FSub, pivot, Map2(FSub, prev_high, prev_low)),
     S3 |-> Map2(FSub, prev_low, Scale(2, Map2(FSub, prev_high, pivot)))]

-----------------------------------------------------------------------------
(* The entry points.  An entry point is a list of steps in statement order;  *)
(* a step reads columns of the frame (a missing one raises KeyError naming   *)
(* it), may index the first bar (IndexError on an empty frame), and assigns  *)
(* columns.                                                                  *)

Step(reads, needsBar, cols) == [reads |-> reads, needsBar |-> needsBar, cols |-> cols]

NoColumns == [name \in {} |-> <<>>]

\* the first name of reads that is no column of f, "" when all are
RECURSIVE FirstMissing(_, _)
FirstMissing(f, reads) ==
    IF reads = <<>> THEN ""
    ELSE IF Head(reads) \notin f.cols THEN Head(reads)
    ELSE FirstMissing(f, Tail(reads))

\* the steps run in order on f: the columns assigned, and the exception that
\* ended the run if one did
RECURSIVE RunSteps(_, _, _)
RunSteps(f, steps, done) ==
    IF steps = <<>> THEN [err |-> "", col |-> "", cols |-> done]
    ELSE LET st == Head(steps) IN
         IF FirstMissing(f, st.reads) # ""
         THEN [err |-> "KeyError", col |-> FirstMissing(f, st.reads), cols |-> done]
         ELSE IF st.needsBar /\ f.bars = <<>>
         THEN [err |-> "IndexError", col |-> "", cols |-> done]
         ELSE RunSteps(f, Tail(steps), done @@ st.cols)

\* _add_technical_indicators
TechnicalSteps(f, advanced) ==
    LET close == Col(f, "Close")
        macd_data == CalculateMacd(close)
        bb_data   == CalculateBollingerBands(close)
        kdj_data  == CalculateKdj(f)
        stoch_data == CalculateStochastic(f) IN
    <<Step(<<"Close">>, FALSE,
           "SMA_5" :> Rolling(close, 5, MeanOf)
           @@ "SMA_10" :> Rolling(close, 10, MeanOf)
           @@ "SMA_20" :> Rolling(close, 20, MeanOf)
           @@ "SMA_50" :> Rolling(close, 50, MeanOf)
           @@ "SMA_200" :> Rolling(close, 200, MeanOf)
           @@ "EMA_12" :> EwmSpan(close, 12, TRUE)
           @@ "EMA_26" :> EwmSpan(close, 26, TRUE)
           @@ "EMA_50" :> EwmSpan(close, 50, TRUE)
           @@ "RSI" :> CalculateRsi(close, 14)
           @@ "RSI_14" :> CalculateRsi(close, 14)
           @@ "MACD" :> macd_data.MACD
           @@ "MACD_Signal" :> macd_data.Signal
           @@ "MACD_Histogram" :> macd_data.Histogram
           @@ "BOLL" :> bb_data.Middle
           @@ "BOLL_Upper" :> bb_data.Upper
           @@ "BOLL_Lower" :> bb_data.Lower)>>
    \o (IF ~advanced THEN <<>> ELSE
        <<Step(<<"Low", "High", "Close">>, FALSE,
               "KDJ_K" :> kdj_data.K @@ "KDJ_D" :> kdj_data.D
               @@ "KDJ_J" :> kdj_data.J),
          Step(<<"High", "Low", "Close">>, FALSE,
               "ATR" :> CalculateAtr(f, 14) @@ "ATR_14" :> CalculateAtr(f, 14)),
          Step(<<"Low", "High", "Close">>, FALSE,
               "Stoch_K" :> stoch_data.K @@ "Stoch_D" :> stoch_data.D),
          Step(<<"High", "Low", "Close">>, FALSE,
               "Williams_R" :> CalculateWilliamsR(f)),
          Step(<<"High", "Low", "Close">>, FALSE, "CCI" :> CalculateCci(f)),
          Step(<<"High", "Low", "Close", "Volume">>, FALSE,
               "MFI" :> CalculateMfi(f))>>)

\* _add_volume_indicators; _calculate_obv indexes the first bar and reads
\* Close only in its loop over the later bars
VolumeSteps(f) ==
    LET volume == Col(f, "Volume") IN
    <<Step(<<"Volume">>, FALSE,
           "Volume_SMA_20" :> Rolling(volume, 20, MeanOf)
           @@ "Volume_SMA_50" :> Rolling(volume, 50, MeanOf)
           @@ "Volume_ROC" :> Scale(100, PctChange(volume, 10))),
      Step(IF Len(f.bars) > 1 THEN <<"Volume", "Close">> ELSE <<"Volume">>, TRUE,
           "OBV" :> CalculateObv(f)),
      Step(<<"High", "Low", "Close", "Volume">>, FALSE,
           "VWAP" :> CalculateVwap(f))>>

\* _add_support_resistance
SupportResistanceSteps(f) ==
    LET pivot_data == CalculatePivotPoints(f) IN
    <<Step(<<"High", "Low", "Close">>, FALSE,
           "Pivot" :> pivot_data.Pivot
           @@ "R1" :> pivot_data.R1 @@ "R2" :> pivot_data.R2
           @@ "R3" :> pivot_data.R3 @@ "S1" :> pivot_data.S1
           @@ "S2" :> pivot_data.S2 @@ "S3" :> pivot_data.S3)>>

-----------------------------------------------------------------------------
(* openbb_app: add_technical_indicators and calculate_technical_indicators *)

\* add_technical_indicators: the volume columns are computed only when the
\* frame has a Volume column
AppSteps(f) ==
    LET close  == Col(f, "Close")
        volume == Col(f, "Volume")
        ema_12 == EwmSpan(close, 12, TRUE)
        ema_26 == EwmSpan(close, 26, TRUE)
        macd   == Map2(FSub, ema_12, ema_26)
        signal == EwmSpan(macd, 9, TRUE)
        middle == Rolling(close, 20, MeanOf)
        bb_std_dev == Rolling(close, 20, StdOf)
        volume_sma == Rolling(volume, 20, MeanOf) IN
    <<Step(<<"Close">>, FALSE,
           "SMA_20" :> Rolling(close, 20, MeanOf)
           @@ "SMA_50" :> Rolling(close, 50, MeanOf)
           @@ "SMA_200" :> Rolling(close, 200, MeanOf)
           @@ "EMA_12" :> ema_12
           @@ "EMA_26" :> ema_26
           @@ "MACD" :> macd
           @@ "MACD_Signal" :> signal
           @@ "MACD_Histogram" :> Map2(FSub, macd, signal)
           @@ "RSI" :> CalculateRsi(close, 14)
           @@ "BB_Middle" :> middle
           @@ "BB_Upper" :> Map2(FAdd, middle, Scale(2, bb_std_dev))
           @@ "BB_Lower" :> Map2(FSub, middle, Scale(2, bb_std_dev)))>>
    \o (IF "Volume" \notin f.cols THEN <<>> ELSE
        <<Step(<<"Volume">>, FALSE,
               "Volume_SMA" :> volume_sma
               @@ "Volume_Ratio" :> Map2(FDiv, volume, volume_sma))>>)

\* the OBV column of calculate_technical_indicators: the cumulative sum of
\* Volume * (diff is not NaN) * sign(diff, NaN read as 0)
SignedVolumeObv(f) ==
    LET close == Col(f, "Close")
        diff  == Diff(close) IN
    Cumsum(Series([i \in 1 .. Len(f.bars) |->
               FMul(FMul(FInt(f.bars[i].Volume),
                         FInt(IF IsNaN(diff[i]) THEN 0 ELSE 1)),
                    FInt(IF IsNaN(diff[i]) THEN 0 ELSE Sign(diff[i])))]))

\* the Pivot, R1, S1, R2, S2 columns of calculate_technical_indicators: from
\* the high, low and close of the bar itself
SameBarPivots(f) ==
    LET high  == Col(f, "High")
        low   == Col(f, "Low")
        pivot == TypicalPrice(f) IN
    "Pivot" :> pivot
    @@ "R1" :> Map2(FSub, Scale(2, pivot), low)
    @@ "S1" :> Map2(FSub, Scale(2, pivot), high)
    @@ "R2" :> Map2(FAdd, pivot, Map2(FSub, high, low))
    @@ "S2" :> Map2(FSub, pivot, Map2(FSub, high, low))

\* calculate_technical_indicators, past its test for an empty frame
CalculateSteps(f) ==
    LET close  == Col(f, "Close")
        ema_12 == EwmSpan(close, 12, FALSE)
        ema_26 == EwmSpan(close, 26, FALSE)
        macd   == Map2(FSub, ema_12, ema_26)
        signal == EwmSpan(macd, 9, FALSE)
        middle == Rolling(close, 20, MeanOf)
        bb_std == Rolling(close, 20, StdOf)
        upper  == Map2(FAdd, middle, Scale(2, bb_std))
        lower  == Map2(FSub, middle, Scale(2, bb_std))
        stoch_k == PercentK(f, 14)
        prev       == Shift(close)
        high_low   == Map2(FSub, Col(f, "High"), Col(f, "Low"))
        high_close == Map1(FAbs, Map2(FSub, Col(f, "High"), prev))
        low_close  == Map1(FAbs, Map2(FSub, Col(f, "Low"), prev))
        true_range == Map2(SkipNaMax, high_low, Map2(SkipNaMax, high_close, low_close)) IN
    <<Step(<<"Close">>, FALSE,
           "SMA_20" :> Rolling(close, 20, MeanOf)
           @@ "SMA_50" :> Rolling(close, 50, MeanOf)
           @@ "SMA_200" :> Rolling(close, 200, MeanOf)
           @@ "EMA_12" :> ema_12
           @@ "EMA_26" :> ema_26
           @@ "EMA_50" :> EwmSpan(close, 50, FALSE)
           @@ "RSI" :> CalculateRsi(close, 14)
           @@ "MACD" :> macd
           @@ "MACD_Signal" :> signal
           @@ "MACD_Histogram" :> Map2(FSub, macd, signal)
           @@ "BB_Middle" :> middle
           @@ "BB_Upper" :> upper
           @@ "BB_Lower" :> lower
           @@ "BB_Width" :> Map2(FSub, upper, lower)
           @@ "BB_Percent" :> Map2(FDiv, Map2(FSub, close, lower),
                                         Map2(FSub, upper, lower))),
      Step(<<"Low", "High", "Close">>, FALSE,
           "Stoch_K" :> stoch_k @@ "Stoch_D" :> Rolling(stoch_k, 3, MeanOf)),
      Step(<<"High", "Low", "Close">>, FALSE,
           "ATR" :> Rolling(true_range, 14, MeanOf)),
      Step(<<"Volume", "Close">>, FALSE,
           "Volume_MA" :> Rolling(Col(f, "Volume"), 20, MeanOf)
           @@ "OBV" :> SignedVolumeObv(f)),
      Step(<<"High", "Low", "Close", "Volume">>, FALSE,
           "MFI" :> CalculateMfi(f)),
      Step(<<"High", "Low", "Close">>, FALSE,
           "Resistance" :> Rolling(Col(f, "High"), 20, MaxOf)
           @@ "Support" :> Rolling(Col(f, "Low"), 20, MinOf)
           @@ SameBarPivots(f))>>

-----------------------------------------------------------------------------
(* The frames the entry points are run on, and the calls *)

\* the longest frame, in bars
MaxBars == 5

\* the longest frame that is also tried with a column missing
MaxBarsMissing == 2

Columns == {"Close", "High", "Low", "Volume"}

\* bars with Low <= Close <= High and a volume >= 0; closes rise, fall and
\* repeat between them
BarShapes ==
    {[Close |-> 10, High |-> 12, Low |-> 9,  Volume |-> 3],
     [Close |-> 11, High |-> 13, Low |-> 10, Volume |-> 5],
     [Close |-> 10, High |-> 11, Low |-> 8,  Volume |-> 0]}

Frames(f) ==
    \E n \in 0 .. MaxBars :
      \E bars \in [1 .. n -> BarShapes] :
        \E cols \in {Columns} \cup {Columns \ {c} : c \in Columns} :
            /\ cols # Columns => n <= MaxBarsMissing
            /\ f = [cols |-> cols, bars |-> bars]

\* no analyzer is in use
ScorerIdle ==
    /\ data = Empty
    /\ pc = "new"
    /\ sector = ""
    /\ industry = ""
    /\ benchmarks = DEFAULT_BENCHMARK
    /\ result = NoResult
    /\ result2 = NoResult
    /\ recScore = 0
    /\ recOut = "none"

InitIndicators ==
    /\ ScorerIdle
    /\ CacheIdle
    /\ PortfolioIdle
    /\ Frames(df)
    /\ entry = ""
    /\ out = <<>>
    /\ ipc = "idle"

\* the call returned the frame with the columns r.cols added, or raised r.err
Outcome(r) ==
    /\ out' = [err |-> r.err, caught |-> "", col |-> r.col, cols |-> r.cols]
    /\ ipc' = IF r.err = "" THEN "returned" ELSE "raised"

\* _add_technical_indicators(data, advanced)
AddTechnicalIndicators ==
    /\ ipc = "idle"
    /\ \E advanced \in BOOLEAN :
          Outcome(RunSteps(df, TechnicalSteps(df, advanced), NoColumns))
    /\ entry' = "_add_technical_indicators"
    /\ UNCHANGED <<df, scorerVars, cacheVars, portfolioVars>>

\* _add_volume_indicators(data)
AddVolumeIndicators ==
    /\ ipc = "idle"
    /\ Outcome(RunSteps(df, VolumeSteps(df), NoColumns))
    /\ entry' = "_add_volume_indicators"
    /\ UNCHANGED <<df, scorerVars, cacheVars, portfolioVars>>

\* _add_support_resistance(data)
AddSupportResistance ==
    /\ ipc = "idle"
    /\ Outcome(RunSteps(df, SupportResistanceSteps(df), NoColumns))
    /\ entry' = "_add_support_resistance"
    /\ UNCHANGED <<df, scorerVars, cacheVars, portfolioVars>>

\* what fetch_data returns when its three calls ended as r: the enriched
\* frame, or (None, None) after an exception, which it catches
FetchOutcome(r) ==
    IF r.err # ""
    THEN /\ out' = [err |-> "", caught |-> r.err, col |-> r.col, cols |-> NoColumns]
         /\ ipc' = "nodata"
    ELSE Outcome(r)

\* fetch_data of get_enhanced_stock_data, from the history it fetched: an
\* empty history returns (None, None) before any indicator is computed
FetchData ==
    /\ ipc = "idle"
    /\ IF df.bars = <<>>
       THEN /\ out' = [err |-> "", caught |-> "", col |-> "", cols |-> NoColumns]
            /\ ipc' = "nodata"
       ELSE FetchOutcome(RunSteps(df, TechnicalSteps(df, TRUE) \o VolumeSteps(df)
                                       \o SupportResistanceSteps(df), NoColumns))
    /\ entry' = "fetch_data"
    /\ UNCHANGED <<df, scorerVars, cacheVars, portfolioVars>>

\* what add_technical_indicators returns when its statements ended as r
AppOutcome(r) ==
    /\ out' = [err |-> "", caught |-> r.err, col |-> r.col, cols |-> r.cols]
    /\ ipc' = "returned"

\* add_technical_indicators(df) of openbb_app: an exception is caught, a
\* warning shown, and the frame returned with the columns assigned so far
AppAddTechnicalIndicators ==
    /\ ipc = "idle"
    /\ AppOutcome(RunSteps(df, AppSteps(df), NoColumns))
    /\ entry' = "add_technical_indicators"
    /\ UNCHANGED <<df, scorerVars, cacheVars, portfolioVars>>

\* calculate_technical_indicators(df): an empty frame is returned as it is
CalculateTechnicalIndicators ==
    /\ ipc = "idle"
    /\ IF df.bars = <<>>
       THEN Outcome([err |-> "", col |-> "", cols |-> NoColumns])
       ELSE Outcome(RunSteps(df, CalculateSteps(df), NoColumns))
    /\ entry' = "calculate_technical_indicators"
    /\ UNCHANGED <<df, scorerVars, cacheVars, portfolioVars>>

NextIndicators ==
    \/ AddTechnicalIndicators
    \/ AddVolumeIndicators
    \/ AddSupportResistance
    \/ FetchData
    \/ AppAddTechnicalIndicators
    \/ CalculateTechnicalIndicators

SpecIndicators == InitIndicators /\ [][NextIndicators]_vars

-----------------------------------------------------------------------------
(* _calculate_rsi called on a price series of its own *)

\* the longest price series, in bars
MaxRsiBars == 16

\* the default window of _calculate_rsi, in bars
RsiWindow == 14

\* the shortest: one bar short of the RSI window
MinRsiBars == RsiWindow - 1

\* the first close of a series
FirstClose == 50

\* the close-to-close changes a series is made of
Changes == {-2, -1, 0, 1, 3}

\* a bar of a price series: only its close matters
PriceBar(c) == [Close |-> c, High |-> c, Low |-> c, Volume |-> 1]

\* the series that starts at FirstClose, moves by a for k bars and by b after
PriceSeries(n, k, a, b) ==
    [i \in 1 .. n |->
        PriceBar(FirstClose + (IF i - 1 <= k THEN (i - 1) * a
                               ELSE k * a + (i - 1 - k) * b))]

PriceFrames(f) ==
    \E n \in MinRsiBars .. MaxRsiBars :
      \E k \in 0 .. n - 1 :
        \E a \in Changes, b \in Changes :
            f = [cols |-> Columns, bars |-> PriceSeries(n, k, a, b)]

InitRsi ==
    /\ ScorerIdle
    /\ CacheIdle
    /\ PortfolioIdle
    /\ PriceFrames(df)
    /\ entry = ""
    /\ out = <<>>
    /\ ipc = "idle"

\* _calculate_rsi(data['Close'])
CallCalculateRsi ==
    /\ ipc = "idle"
    /\ Outcome([err |-> "", col |-> "",
                cols |-> "RSI" :> CalculateRsi(Col(df, "Close"), RsiWindow)])
    /\ entry' = "_calculate_rsi"
    /\ UNCHANGED <<df, scorerVars, cacheVars, portfolioVars>>

NextRsi == CallCalculateRsi

SpecRsi == InitRsi /\ [][NextRsi]_vars

\* _calculate_mfi(data)
CallCalculateMfi ==
    /\ ipc = "idle"
    /\ Outcome([err |-> "", col |-> "", cols |-> "MFI" :> CalculateMfi(df)])
    /\ entry' = "_calculate_mfi"
    /\ UNCHANGED <<df, scorerVars, cacheVars, portfolioVars>>

NextOscillators == CallCalculateRsi \/ CallCalculateMfi

\* the two oscillators that average 14 bars of signed changes
SpecOscillators == InitRsi /\ [][NextOscillators]_vars

-----------------------------------------------------------------------------
(* _get_enhanced_financial_metrics: the technical and the sentiment score of
   one company of the market overview.  Scores are in tenths. *)

\* no value: the column, or the key of info, is missing
FMissing == [t |-> "missing", n |-> 0, d |-> 1]

\* the frame with the columns cols added: name -> series
Enriched(f, cols) == cols @@ [name \in f.cols |-> Col(f, name)]

\* data[name].iloc[-1] if name in data.columns and not
\* data[name].isna().iloc[-1] else 0
LatestOrZero(cols, name) ==
    IF name \in DOMAIN cols /\ ~IsNaN(cols[name][Len(cols[name])])
    THEN cols[name][Len(cols[name])]
    ELSE FInt(0)

\* volume / avg_volume if avg_volume > 0 else 1
VolumeRatio(cols, avg_volume) ==
    LET volume == IF "Volume" \in DOMAIN cols
                  THEN cols["Volume"][Len(cols["Volume"])] ELSE FInt(0) IN
    IF avg_volume > 0 THEN FDiv(volume, FInt(avg_volume)) ELSE FInt(1)

\* technical_score, from rsi, macd and volume_ratio
TechnicalScore(rsi, macd, volume_ratio) ==
      (IF FGt(rsi, FInt(70)) THEN -10
       ELSE IF FLt(rsi, FInt(30)) THEN 10 ELSE 0)
    + (IF FGt(macd, FInt(0)) THEN 5 ELSE -5)
    + (IF FGt(volume_ratio, F(3, 2)) THEN 5
       ELSE IF FLt(volume_ratio, F(1, 2)) THEN -3 ELSE 0)

\* info.get('targetMeanPrice', current_price)
TargetPrice(target, current_price) ==
    IF target = FMissing THEN current_price ELSE target

\* ((target_price - current_price) / current_price * 100) if target_price
\* else 0
UpsidePotential(target_price, current_price) ==
    IF target_price.t = "num" /\ target_price.n = 0 THEN FInt(0)
    ELSE FMul(FDiv(FSub(target_price, current_price), current_price), FInt(100))

\* sentiment_score before technical_score is added to it
AnalystScore(recommendation, upside) ==
      (IF recommendation \in {"buy", "strong_buy"} THEN 20
       ELSE IF recommendation \in {"sell", "strong_sell"} THEN -20 ELSE 0)
    + (IF FGt(upside, FInt(10)) THEN 10
       ELSE IF FLt(upside, FInt(-10)) THEN -10 ELSE 0)

\* _get_enhanced_financial_metrics(symbol, info, data, current_price), where
\* data holds the columns cols; the record returned, with the columns
EnhancedFinancialMetrics(cols, info, current_price) ==
    LET rsi    == LatestOrZero(cols, "RSI")
        macd   == LatestOrZero(cols, "MACD")
        ratio  == VolumeRatio(cols, info.averageVolume)
        upside == UpsidePotential(TargetPrice(info.targetMeanPrice, current_price),
                                  current_price)
        technical_score == TechnicalScore(rsi, macd, ratio) IN
    [err |-> "", caught |-> "", col |-> "", cols |-> cols,
     info |-> info,
     rsi |-> rsi, macd |-> macd, atr |-> LatestOrZero(cols, "ATR"),
     volume_ratio |-> ratio, upside_potential |-> upside,
     technical_score |-> technical_score,
     sentiment_score |-> AnalystScore(info.recommendationKey, upside)
                         + technical_score]

\* the info of a company: the fields the two scores read
Infos ==
    [averageVolume : {0, 1, 4}, recommendationKey : {"buy", "none", "sell"},
     targetMeanPrice : {FMissing, FInt(8), FInt(12)}]

\* the latest RSI of a frame handed to the function: no such column, NaN, or
\* a value
LatestRsi == {FMissing, FNaN, FInt(20), FInt(50), FInt(80)}

\* the latest MACD likewise
LatestMacd == {FMissing, FNaN, FInt(-1), FInt(1)}

\* the one-row column name, absent when v is missing
OneRow(name, v) == IF v = FMissing THEN NoColumns ELSE name :> <<v>>

InitMetrics ==
    /\ ScorerIdle
    /\ CacheIdle
    /\ PortfolioIdle
    /\ Frames(df)
    /\ Len(df.bars) <= MaxBarsMissing
    /\ entry = ""
    /\ out = <<>>
    /\ ipc = "idle"

\* _get_enhanced_financial_metrics called on a one-row frame whose RSI and
\* MACD columns end with the given values
GetEnhancedFinancialMetrics ==
    /\ ipc = "idle"
    /\ \E info \in Infos, rsi \in LatestRsi, macd \in LatestMacd, volume \in {1, 3} :
          out' = EnhancedFinancialMetrics(
                     OneRow("RSI", rsi) @@ OneRow("MACD", macd)
                         @@ ("Volume" :> <<FInt(volume)>>) @@ ("Close" :> <<FInt(10)>>),
                     info, FInt(10))
    /\ ipc' = "returned"
    /\ entry' = "_get_enhanced_financial_metrics"
    /\ UNCHANGED <<df, scorerVars, cacheVars, portfolioVars>>

\* the metrics of the frame fetch_data ended with as r, or the company
\* skipped when there is no data
OverviewOutcome(r, info) ==
    IF r.err # ""
    THEN /\ out' = [err |-> "", caught |-> r.err, col |-> r.col, cols |-> NoColumns]
         /\ ipc' = "nodata"
    ELSE /\ out' = EnhancedFinancialMetrics(Enriched(df, r.cols), info,
                                            FInt(df.bars[Len(df.bars)].Close))
         /\ ipc' = "returned"

\* one company of get_market_overview_enhanced: the data of
\* get_enhanced_stock_data(symbol, period="1d"), skipped if None or empty,
\* then _get_enhanced_financial_metrics on it
MarketOverviewCompany ==
    /\ ipc = "idle"
    /\ IF df.bars = <<>>
       THEN /\ out' = [err |-> "", caught |-> "", col |-> "", cols |-> NoColumns]
            /\ ipc' = "nodata"
       ELSE \E info \in Infos :
              OverviewOutcome(RunSteps(df, TechnicalSteps(df, TRUE)
                                  \o VolumeSteps(df) \o SupportResistanceSteps(df),
                                  NoColumns), info)
    /\ entry' = "get_market_overview_enhanced"
    /\ UNCHANGED <<df, scorerVars, cacheVars, portfolioVars>>

NextMetrics == GetEnhancedFinancialMetrics \/ MarketOverviewCompany

SpecMetrics == InitMetrics /\ [][NextMetrics]_vars

-----------------------------------------------------------------------------
(* The memoizing caches of EnhancedFinanceData and AlphaVantageClient.
   Time is in seconds; a cache is a dictionary from key to entry, and an
   entry holds the stored data and the time.time() of its storing. *)

\* cache_ttl of both classes, in seconds
CacheTtl == 300

\* the latest time on the clock
MaxClock == 600

\* the seconds that pass between two requests, or during a fetch
Ticks == {299, 300}

\* what a producer handed to _get_cached_or_fetch returns: a frame, an empty
\* list or the tuple (None, None) (both are values that are not None), or None
Produced == {"frame", "[]", "None"}

\* what an AlphaVantage request gives once parsed: the result, or nothing
\* (request failed, or the expected field is missing in the response)
Responses == {"result", "None"}

\* the keys _get_cache_key makes for EnhancedFinanceData
EnhancedKeys == {"enhanced_stock:AAPL", "market_overview:SP500"}

\* the truth value Python gives a value in `if cached:`
TruthyCached(v) == v \notin {"None", "[]"}

\* the record of the last request: the key, the time it was made at, whether
\* the producer was called, and the value returned
Request(client, key, called, ret) ==
    [client |-> client, key |-> key, at |-> now, called |-> called, ret |-> ret]

\* self.cache[key] = ..., with time.time() read at t
Store(c, key, value, t) == (key :> [data |-> value, timestamp |-> t]) @@ c

\* EnhancedFinanceData._is_cache_valid(key) at time t
IsCacheValid(c, key, t) ==
    IF key \notin DOMAIN c THEN FALSE
    ELSE t - c[key].timestamp < CacheTtl

\* a cache that keeps an entry one second longer
GetCachedLate(c, key, t) ==
    IF key \in DOMAIN c /\ t - c[key].timestamp <= CacheTtl
    THEN c[key].data
    ELSE "None"

\* AlphaVantageClient._get_cached(key) at time t
GetCached(c, key, t) ==
    IF key \in DOMAIN c /\ t - c[key].timestamp < CacheTtl
    THEN c[key].data
    ELSE "None"

\* AlphaVantageClient._set_cache(key, data) at time t
SetCache(c, key, value, t) == Store(c, key, value, t)

InitCache ==
    /\ ScorerIdle
    /\ IndicatorsIdle
    /\ PortfolioIdle
    /\ cache = [enhanced |-> <<>>, alpha |-> <<>>]
    /\ now = 0
    /\ last = <<>>

\* time passes between two requests
Tick ==
    /\ \E t \in Ticks :
        /\ now + t <= MaxClock
        /\ now' = now + t
    /\ UNCHANGED <<cache, last, scorerVars, indicatorVars, portfolioVars>>

\* EnhancedFinanceData._get_cached_or_fetch(key, fetch_func); fetch_func
\* returns the fetched value after d seconds
GetCachedOrFetch ==
    \E key \in EnhancedKeys, fetched \in Produced, d \in {0} \cup Ticks :
        IF IsCacheValid(cache.enhanced, key, now)
        THEN /\ last' = Request("enhanced", key, FALSE, cache.enhanced[key].data)
             /\ UNCHANGED <<cache, now, scorerVars, indicatorVars, portfolioVars>>
        ELSE /\ now + d <= MaxClock
             /\ now' = now + d
             /\ cache' = IF fetched # "None"
                         THEN [cache EXCEPT
                                 !.enhanced = Store(@, key, fetched, now + d)]
                         ELSE cache
             /\ last' = Request("enhanced", key, TRUE, fetched)
             /\ UNCHANGED <<scorerVars, indicatorVars, portfolioVars>>

\* the body shared by get_quote, get_daily and get_company_overview: hit is
\* the method's test of the cached value, response what the request gives
\* after d seconds
AlphaRequest(key, hit, response, d) ==
    IF hit
    THEN /\ last' = Request("alpha", key, FALSE, GetCached(cache.alpha, key, now))
         /\ UNCHANGED <<cache, now, scorerVars, indicatorVars, portfolioVars>>
    ELSE /\ now + d <= MaxClock
         /\ now' = now + d
         /\ cache' = IF response # "None"
                     THEN [cache EXCEPT
                             !.alpha = SetCache(@, key, response, now + d)]
                     ELSE cache
         /\ last' = Request("alpha", key, TRUE, response)
         /\ UNCHANGED <<scorerVars, indicatorVars, portfolioVars>>

\* AlphaVantageClient.get_quote(symbol): `if cached:`
GetQuote ==
    \E response \in Responses, d \in {0} \cup Ticks :
        AlphaRequest("quote:AAPL",
                     TruthyCached(GetCached(cache.alpha, "quote:AAPL", now)),
                     response, d)

\* AlphaVantageClient.get_daily(symbol): `if cached is not None:`
GetDaily ==
    \E response \in Responses, d \in {0} \cup Ticks :
        AlphaRequest("daily:AAPL",
                     GetCached(cache.alpha, "daily:AAPL", now) # "None",
                     response, d)

\* AlphaVantageClient.get_company_overview(symbol): `if cached:`
GetCompanyOverview ==
    \E response \in Responses, d \in {0} \cup Ticks :
        AlphaRequest("overview:AAPL",
                     TruthyCached(GetCached(cache.alpha, "overview:AAPL", now)),
                     response, d)

NextCache ==
    Tick \/ GetCachedOrFetch \/ GetQuote \/ GetDaily \/ GetCompanyOverview

SpecCache == InitCache /\ [][NextCache]_vars

-----------------------------------------------------------------------------
(* get_enhanced_stock_data and get_enhanced_news of EnhancedFinanceData,
   which go through _get_cached_or_fetch *)

Symbols == {"AAPL", "MSFT"}

Periods == {"1y", "1d"}

Limits == {5, 10}

\* the most calls made of the two methods
MaxCalls == 3

\* _get_cache_key(method, **kwargs): the method and the items of kwargs sorted
\* by name; the str() of such a list differs when an item differs
GetCacheKey(method, items) == <<method, items>>

\* the failure value of fetch_data: the tuple (None, None)
NoneNone == [kind |-> "(None, None)"]

\* the failure value of fetch_news: the list []
EmptyList == [kind |-> "[]"]

\* None
PyNone == [kind |-> "None"]

\* x or y
Or(x, y) == IF x.kind \in {"None", "[]"} THEN y ELSE x

\* the calls made so far
CallCount == IF last = <<>> THEN 0 ELSE last.n

\* the record of the last call: the method, its arguments, the time, whether
\* the producer was called, and the value returned
Call(method, args, called, value) ==
    [method |-> method, args |-> args, at |-> now, n |-> CallCount + 1,
     called |-> called, ret |-> value]

\* return self._get_cached_or_fetch(key, producer) or fallback, where the
\* producer, if called, returns fetched
CachedOrFetch(method, args, key, fetched, fallback) ==
    /\ CallCount < MaxCalls
    /\ IF IsCacheValid(cache.enhanced, key, now)
       THEN /\ last' = Call(method, args, FALSE,
                            Or(cache.enhanced[key].data, fallback))
            /\ UNCHANGED cache
       ELSE /\ cache' = IF fetched # PyNone
                        THEN [cache EXCEPT !.enhanced = Store(@, key, fetched, now)]
                        ELSE cache
            /\ last' = Call(method, args, TRUE, Or(fetched, fallback))
    /\ UNCHANGED <<now, scorerVars, indicatorVars, portfolioVars>>

\* get_enhanced_stock_data(symbol, period, include_advanced_indicators):
\* fetch_data returns the history with the indicators asked for, or
\* (None, None) when the history is empty or an exception was caught
GetEnhancedStockData ==
    \E symbol \in Symbols, period \in Periods, advanced \in BOOLEAN :
        LET args == [symbol |-> symbol, period |-> period,
                     include_advanced_indicators |-> advanced] IN
        \E fetched \in {[kind |-> "data", args |-> args], NoneNone} :
            CachedOrFetch("get_enhanced_stock_data", args,
                          GetCacheKey("enhanced_stock",
                                      <<<<"period", period>>, <<"symbol", symbol>>>>),
                          fetched, NoneNone)

\* get_enhanced_news(symbol, limit): fetch_news returns at most limit news of
\* the symbol, or [] when an exception was caught
GetEnhancedNews ==
    \E symbol \in Symbols, limit \in Limits :
        LET args == [symbol |-> symbol, limit |-> limit] IN
        \E fetched \in {[kind |-> "news", args |-> args], EmptyList} :
            CachedOrFetch("get_enhanced_news", args,
                          GetCacheKey("news",
                                      <<<<"limit", limit>>, <<"symbol", symbol>>>>),
                          fetched, EmptyList)

NextFetch == Tick \/ GetEnhancedStockData \/ GetEnhancedNews

SpecFetch == InitCache /\ [][NextFetch]_vars

-----------------------------------------------------------------------------
(* PortfolioManager: self.positions, a dictionary from symbol to
   PortfolioPosition, and the portfolio file.  Shares are whole numbers and
   costs exact fractions. *)

\* the most calls made on a portfolio
MaxOps == 2

\* symbol.upper()
Upper(s) ==
    CASE s = "aapl" -> "AAPL"
      [] s = "msft" -> "MSFT"
      [] OTHER -> s

\* date.today().strftime("%Y-%m-%d")
Today == "2026-11-05"

\* PortfolioPosition(symbol, shares, avg_cost, purchase_date, notes)
PortfolioPosition(symbol, shares, avg_cost, purchase_date, notes) ==
    [symbol |-> symbol, shares |-> shares, avg_cost |-> avg_cost,
     purchase_date |-> purchase_date, notes |-> notes]

\* del ps[symbol]
Del(ps, symbol) == [k \in DOMAIN ps \ {symbol} |-> ps[k]]

\* the mean of the costs of the two purchases, whatever their sizes
NewAvgCostUnweighted(existing, shares, price) ==
    FDiv(FAdd(existing.avg_cost, price), FInt(2))

\* new_avg_cost of add_position: total_cost / total_shares
NewAvgCost(existing, shares, price) ==
    FDiv(FAdd(FMul(FInt(existing.shares), existing.avg_cost),
              FMul(FInt(shares), price)),
         FInt(existing.shares + shares))

\* the body of the try of add_position, before _save_portfolio: the
\* positions it leaves and the exception raised, if any
AddPositionTo(ps, symbol, shares, price, purchase_date, notes) ==
    LET sym == Upper(symbol)
        day == IF purchase_date = "None" THEN Today ELSE purchase_date IN
    IF sym \in DOMAIN ps
    THEN IF ps[sym].shares + shares = 0
         THEN [positions |-> ps, err |-> "ZeroDivisionError"]
         ELSE [positions |->
                   (sym :> PortfolioPosition(
                               sym, ps[sym].shares + shares,
                               NewAvgCost(ps[sym], shares, price),
                               ps[sym].purchase_date,
                               IF notes # "" THEN ps[sym].notes \o "; " \o notes
                               ELSE ps[sym].notes)) @@ ps,
               err |-> ""]
    ELSE [positions |->
              (sym :> PortfolioPosition(sym, shares, price, day, notes)) @@ ps,
          err |-> ""]

\* a removal that keeps the position when all its shares are sold
RemovesAllStrict(n, current_shares) == n > current_shares

\* shares >= current_shares
RemovesAll(n, current_shares) == n >= current_shares

\* the body of the try of remove_position, before _save_portfolio: the
\* positions it leaves, and whether it found the symbol; all stands for
\* shares=None
RemovePositionFrom(ps, symbol, all, n) ==
    LET sym == Upper(symbol) IN
    IF sym \notin DOMAIN ps THEN [positions |-> ps, found |-> FALSE]
    ELSE IF all \/ RemovesAll(n, ps[sym].shares)
         THEN [positions |-> Del(ps, sym), found |-> TRUE]
         ELSE [positions |-> [ps EXCEPT ![sym].shares = @ - n], found |-> TRUE]

\* the file after _save_portfolio: the positions written, or, when open() or
\* json.dump raised (the exception is caught and printed), the file as the
\* failed write left it
SavePortfolio(f, ps, written) ==
    IF written THEN [state |-> "written", content |-> ps]
    ELSE [f EXCEPT !.state = IF @ = "absent" THEN "absent" ELSE "stale"]

\* the calls of add_position made for each symbol since its position was
\* created, as long as nothing else changed the position
Bought == IF reply = <<>> THEN <<>> ELSE reply.bought

\* Bought after a call of add_position
BoughtAdding(symbol, purchase) ==
    IF symbol \notin DOMAIN positions THEN (symbol :> <<purchase>>) @@ Bought
    ELSE IF symbol \in DOMAIN Bought
    THEN [Bought EXCEPT ![symbol] = Append(@, purchase)]
    ELSE Bought

\* the record of a call: the count of calls, the method, its arguments, and
\* the value returned
Reply(op, symbol, all, shares, price, extra, returned, err, bought) ==
    [n |-> (IF reply = <<>> THEN 0 ELSE reply.n) + 1, op |-> op,
     symbol |-> symbol, all |-> all, shares |-> shares, price |-> price,
     purchase_date |-> extra.purchase_date, notes |-> extra.notes,
     result |-> returned, err |-> err, bought |-> bought]

OpsLeft == (IF reply = <<>> THEN 0 ELSE reply.n) < MaxOps

InitPortfolio ==
    /\ ScorerIdle
    /\ IndicatorsIdle
    /\ CacheIdle
    /\ positions = <<>>
    /\ file = [state |-> "absent", content |-> <<>>]
    /\ reply = <<>>

\* add_position, its try having ended as r
AddOutcome(r, symbol, shares, price, extra, written) ==
    /\ positions' = r.positions
    /\ file' = IF r.err = "" THEN SavePortfolio(file, r.positions, written) ELSE file
    /\ reply' = Reply("add_position", symbol, FALSE, shares, price, extra,
                      r.err = "", r.err,
                      BoughtAdding(Upper(symbol),
                                   [shares |-> shares, price |-> price,
                                    result |-> r.err = ""]))

\* add_position(symbol, shares, price, purchase_date, notes)
AddPosition ==
    /\ OpsLeft
    /\ \E symbol \in {"aapl", "MSFT"}, shares \in {-1, 1, 2},
          price \in {FInt(10), FInt(20)},
          extra \in {[purchase_date |-> "None", notes |-> ""],
                     [purchase_date |-> "2024-01-02", notes |-> "x"]},
          written \in BOOLEAN :
          AddOutcome(AddPositionTo(positions, symbol, shares, price,
                                   extra.purchase_date, extra.notes),
                     symbol, shares, price, extra, written)
    /\ UNCHANGED <<scorerVars, indicatorVars, cacheVars>>

\* remove_position, its try having ended as r
RemoveOutcome(r, symbol, all, n, written) ==
    /\ positions' = r.positions
    /\ file' = IF r.found THEN SavePortfolio(file, r.positions, written) ELSE file
    /\ reply' = Reply("remove_position", symbol, all, n, FInt(0),
                      [purchase_date |-> "None", notes |-> ""], r.found, "",
                      Del(Bought, Upper(symbol)))

\* remove_position(symbol, shares)
RemovePosition ==
    /\ OpsLeft
    /\ \E symbol \in {"aapl", "MSFT"}, all \in BOOLEAN, n \in {-1, 1, 2, 3},
          written \in BOOLEAN :
          /\ all => n = 1
          /\ RemoveOutcome(RemovePositionFrom(positions, symbol, all, n),
                           symbol, all, n, written)
    /\ UNCHANGED <<scorerVars, indicatorVars, cacheVars>>

NextPortfolio == AddPosition \/ RemovePosition

SpecPortfolio == InitPortfolio /\ [][NextPortfolio]_vars

-----------------------------------------------------------------------------
(* The Portfolio tab of the dashboard: the Add Position form, and the Update
   and Remove buttons shown for each position of the portfolio *)

\* st.date_input("Purchase Date").strftime("%Y-%m-%d")
DateInput == "2024-01-02"

\* the record of a click: the button, the symbol it is about and the
\* numbers of the form
Click(button, symbol, shares, price, done) ==
    Reply(button, symbol, FALSE, shares, price,
          [purchase_date |-> DateInput, notes |-> ""], done, "", <<>>)

\* the portfolio after add_position, its try having ended as r, on the file f
AfterAdd(r, f, written) ==
    /\ positions' = r.positions
    /\ file' = IF r.err = "" THEN SavePortfolio(f, r.positions, written) ELSE f

\* the Add Position button: st.number_input(min_value=0.0) gives numbers
\* >= 0; add_position is called if the symbol is filled in and both numbers
\* are > 0, else a warning is shown
AddPositionButton ==
    /\ OpsLeft
    /\ \E text \in {"", "aapl", "MSFT"}, new_shares \in {0, 1, 2},
          new_price \in {FInt(0), FInt(10)}, new_notes \in {"", "core"},
          written \in BOOLEAN :
          LET new_symbol == Upper(text) IN
          IF new_symbol # "" /\ new_shares > 0 /\ FGt(new_price, FInt(0))
          THEN /\ AfterAdd(AddPositionTo(positions, new_symbol, new_shares,
                                         new_price, DateInput, new_notes),
                           file, written)
               /\ reply' = Click("Add Position", new_symbol, new_shares,
                                 new_price, TRUE)
          ELSE /\ reply' = Click("Add Position", new_symbol, new_shares,
                                 new_price, FALSE)
               /\ UNCHANGED <<positions, file>>
    /\ UNCHANGED <<scorerVars, indicatorVars, cacheVars>>

\* the Update button of a position: remove_position(symbol), then
\* add_position with the numbers of the edit form (min_value=0.0) and the
\* date and notes of the position
UpdateButton ==
    /\ OpsLeft
    /\ \E symbol \in DOMAIN positions, edit_shares \in {0, 1, 3},
          edit_price \in {FInt(0), FInt(15)}, removed \in BOOLEAN,
          written \in BOOLEAN :
          LET without == RemovePositionFrom(positions, symbol, TRUE, 0).positions
          IN
          /\ AfterAdd(AddPositionTo(without, symbol, edit_shares, edit_price,
                                    positions[symbol].purchase_date,
                                    positions[symbol].notes),
                      SavePortfolio(file, without, removed), written)
          /\ reply' = Click("Update", symbol, edit_shares, edit_price, TRUE)
    /\ UNCHANGED <<scorerVars, indicatorVars, cacheVars>>

\* the Remove button of a position: remove_position(symbol)
RemoveButton ==
    /\ OpsLeft
    /\ \E symbol \in DOMAIN positions, written \in BOOLEAN :
          /\ positions' = RemovePositionFrom(positions, symbol, TRUE, 0).positions
          /\ file' = SavePortfolio(file, positions', written)
          /\ reply' = Click("Remove", symbol, 0, FInt(0), TRUE)
    /\ UNCHANGED <<scorerVars, indicatorVars, cacheVars>>

NextDashboard == AddPositionButton \/ UpdateButton \/ RemoveButton

SpecDashboard == InitPortfolio /\ [][NextDashboard]_vars

-----------------------------------------------------------------------------
(* Claims *)

ScoreFields ==
    {"valuation_score", "financial_health_score", "growth_score",
     "momentum_score", "sentiment_score"}

\* C1: the overall score analyze() returns is the weighted sum
\* 0.25*valuation + 0.20*health + 0.25*growth + 0.15*momentum + 0.15*sentiment
\* of the returned category scores and lies in [0, 100].
C1_OverallInRange ==
    pc = "done" =>
        /\ result.overall_score =
              25 * result.valuation_score + 20 * result.financial_health_score
              + 25 * result.growth_score + 15 * result.momentum_score
              + 15 * result.sentiment_score
        /\ result.overall_score >= 0
        /\ result.overall_score <= 100 * OS

\* every category at its best: the overall score is 94.7
C1_Witness ==
    /\ pc = "done"
    /\ result.overall_score = 947 * (OS \div 10)
    /\ result.momentum_score = 108 * CS

\* C2: each of the five category scores analyze() returns lies in [0, 100].
C2_SubScoresInRange ==
    pc = "done" =>
        \A f \in ScoreFields : result[f] >= 0 /\ result[f] <= 100 * CS

\* C3: _get_recommendation returns exactly one level for every score, with
\* the thresholds 75, 60, 40, 25 inclusive at the lower bound.
C3_RecommendationThresholds ==
    recOut # "none" =>
        /\ recOut \in RecommendationLevels
        /\ recOut = "STRONG_BUY" <=> recScore >= 75 * OS
        /\ recOut = "BUY" <=> (60 * OS <= recScore /\ recScore < 75 * OS)
        /\ recOut = "HOLD" <=> (40 * OS <= recScore /\ recScore < 60 * OS)
        /\ recOut = "SELL" <=> (25 * OS <= recScore /\ recScore < 40 * OS)
        /\ recOut = "STRONG_SELL" <=> recScore < 25 * OS

\* a score exactly on a threshold got the higher level
C3_Witness == recOut = "STRONG_BUY" /\ recScore = 75 * OS

\* the number of signal points the five categories gather from d
PointCount(d, b) ==
    Len(ValuationPoints(d, b).pts) + Len(HealthPoints(d, b).pts)
    + Len(GrowthPoints(d, b).pts) + Len(MomentumPoints(d).pts)
    + Len(SentimentPoints(d).pts)

Without(d, k) == [d EXCEPT ![k] = Absent]

ZeroScoredKeys ==
    {"revenueGrowth", "earningsGrowth", "returnOnEquity", "returnOnAssets",
     "profitMargins", "freeCashflow", "trailingPE"}

\* C4: a metric present with value 0 contributes a signal point: the snapshot
\* gathers more points than the same snapshot with the metric removed.
C4_ZeroMetricScored ==
    pc = "done" =>
        \A k \in ZeroScoredKeys :
            data[k] = Num(0) =>
                PointCount(data, benchmarks) > PointCount(Without(data, k), benchmarks)

\* the scores of an AnalysisResult
Scores(r) ==
    <<r.valuation_score, r.financial_health_score, r.growth_score,
      r.momentum_score, r.sentiment_score, r.overall_score>>

\* C5: a metric whose value is NaN or an infinity is treated as absent: the
\* scores equal those of the same snapshot with the metric removed.
C5_NonFiniteAsAbsent ==
    pc = "done" =>
        \A k \in NumericKeys :
            data[k].t \in {"nan", "pinf", "ninf"} =>
                Scores(result) =
                    Scores(Analysis(Without(data, k), sector, industry, benchmarks).res)

\* a mapping with the sector key and no metric
OnlySector(d) ==
    /\ d.sector # ABSENT_S
    /\ [d EXCEPT !.sector = ABSENT_S, !.industry = ABSENT_S] = Empty

\* C6: for a mapping that holds only sector, the five category scores and the
\* overall score are 50 and the recommendation is Hold.
C6_OnlySectorNeutral ==
    (pc = "done" /\ OnlySector(data)) =>
        /\ \A f \in ScoreFields : result[f] = 50 * CS
        /\ result.overall_score = 50 * OS
        /\ result.recommendation = "HOLD"

C6_Witness == pc = "done" /\ OnlySector(data) /\ data.sector = "Finance"

\* the valuation metrics of the worked example
IsValuationExample(d) ==
    /\ d.sector = "Technology"
    /\ d.trailingPE = Num(20000)
    /\ d.priceToBook = Num(5000)
    /\ d.pegRatio = Num(800)
    /\ d.forwardPE = Absent

\* C7 as stated: for Technology with P/E 20, P/B 5, PEG 0.8 and no forward
\* P/E the valuation points are 80, 60, 90 and the score is 230/3.
C7_AsStated ==
    (pc = "done" /\ IsValuationExample(data)) =>
        /\ ValuationPoints(data, benchmarks).pts = <<80, 60, 90>>
        /\ 3 * result.valuation_score = 230 * CS

\* C7, amended: the points are 80, 80 (P/B 5 is below 0.7 * pb_avg = 5.6),
\* 90, forward P/E adds nothing, and the score is their mean 250/3.
C7_ValuationExample ==
    (pc = "done" /\ IsValuationExample(data)) =>
        /\ PEPoint(data, benchmarks).pts = <<80>>
        /\ PBPoint(data, benchmarks).pts = <<80>>
        /\ PEGPoint(data).pts = <<90>>
        /\ ForwardPEPoint(data).pts = <<>>
        /\ ValuationPoints(data, benchmarks).pts = <<80, 80, 90>>
        /\ 3 * result.valuation_score = 250 * CS

C7_Witness == pc = "done" /\ IsValuationExample(data)

\* C8: the revenue-growth point is 95 only when growth * 100 is strictly
\* above 2 * growth_avg; Technology with growth 0.30 sits on the boundary
\* and gets 80.
C8_StrictGrowthThreshold ==
    pc = "done" =>
        LET g == data.revenueGrowth
            p == RevGrowthPoint(data, benchmarks).pts IN
        /\ p = <<95>> =>
              \/ g.t = "pinf"
              \/ g.t = "num" /\ g.v * 100 > 2 * benchmarks.growth_avg
        /\ (sector = "Technology" /\ g = Num(300)) =>
              /\ p = <<80>>
              /\ (data.earningsGrowth = Absent /\ data.grossMargins = Absent)
                    => result.growth_score = 80 * CS

C8_Witness ==
    /\ pc = "done"
    /\ sector = "Technology"
    /\ data.revenueGrowth = Num(300)
    /\ data.earningsGrowth = Absent
    /\ data.grossMargins = Absent
    /\ result.growth_score = 80 * CS

\* every field of the record holds a value
Complete(r) ==
    /\ r.overall_score >= 0
    /\ r.recommendation \in RecommendationLevels
    /\ \A f \in ScoreFields : r[f] >= 0
    /\ r.sector # "" /\ r.industry # ""
    /\ r.summary.tone # "" /\ r.summary.shown >= 0

\* C9: analyze() never raises and returns a complete record; a missing
\* sector is reported as "Unknown"; a sector that is missing or not in the
\* table is scored with the default benchmark row.
C9_NeverRaises ==
    /\ pc # "raised"
    /\ pc = "done" =>
          /\ Complete(result)
          /\ data.sector = ABSENT_S => result.sector = "Unknown"
          /\ data.sector \notin SectorNames =>
                /\ benchmarks = DEFAULT_BENCHMARK
                /\ result = Analysis(data, result.sector, result.industry,
                                     DEFAULT_BENCHMARK).res

\* no sector, recommendationKey None, a target price and a current price of 0
C9_Witness ==
    /\ pc = "done"
    /\ data.sector = ABSENT_S
    /\ data.recommendationKey = NONE_S
    /\ Truthy(data.targetMeanPrice)
    /\ data.currentPrice = Num(0)

\* s is the first Min(n, Len(all)) items of all
FirstOf(s, all, n) ==
    /\ Len(s) = Min(n, Len(all))
    /\ \A i \in 1 .. Len(s) : s[i] = all[i]

\* the items of s appear in s in the order they have in order
InOrder(s, order) ==
    \A i \in 1 .. Len(s), j \in 1 .. Len(s) :
        i < j => \E a \in 1 .. Len(order), c \in 1 .. Len(order) :
                    a < c /\ order[a] = s[i] /\ order[c] = s[j]

\* C10: at most 3 strengths, 3 weaknesses, 4 red flags and 4 catalysts are
\* returned, and they are the first conditions that fired in the code's
\* evaluation order.
C10_InsightCaps ==
    pc = "done" =>
        LET st == StrengthsFired(data, benchmarks).pts
            wk == WeaknessesFired(data, benchmarks).pts
            rf == RedFlagsFired(data, benchmarks).pts
            ct == CatalystsFired(data).pts IN
        /\ Len(result.strengths) <= 3 /\ Len(result.weaknesses) <= 3
        /\ Len(result.red_flags) <= 4 /\ Len(result.catalysts) <= 4
        /\ FirstOf(result.strengths, st, 3)
        /\ FirstOf(result.weaknesses, wk, 3)
        /\ FirstOf(result.red_flags, rf, 4)
        /\ FirstOf(result.catalysts, ct, 4)
        /\ InOrder(st, <<"pe", "growth", "margins", "roe", "peg">>)
        /\ InOrder(wk, <<"pe", "growth", "margins", "roe">>)
        /\ InOrder(rf, <<"debt", "fcf", "short", "revenue", "ma200">>)
        /\ InOrder(ct, <<"momentum", "upside", "peg_growth", "gross_margin",
                         "strong_buy">>)

\* all five strength conditions fire: the last two are dropped
C10_Witness ==
    /\ pc = "done"
    /\ Len(StrengthsFired(data, benchmarks).pts) = 5
    /\ result.strengths = <<"pe", "growth", "margins">>

\* x is within 10% of avg: |x - avg| < avg / 10
Within10(x, avg) == (x - avg) * 10 < avg /\ (avg - x) * 10 < avg

\* C11: each of P/E, profit margin and revenue growth that is present is put
\* in one of three buckets against its sector average: approximately equal
\* when within 10% of the average, otherwise better, otherwise worse; a margin
\* or a growth within 10% of the average is reported as approximately equal.
C11_ThreeBuckets ==
    pc = "done" =>
        LET pe     == data.trailingPE
            margin == data.profitMargins
            g      == data.revenueGrowth
            cmp    == result.sector_comparison IN
        /\ (pe.t = "num" /\ pe.v # 0) =>
              /\ cmp.pe \in {"approx", "cheaper", "pricier"}
              /\ cmp.pe = "approx" <=> Within10(pe.v, benchmarks.pe_avg)
        /\ (margin.t = "num" /\ margin.v # 0) =>
              /\ cmp.margins \in {"approx", "better", "weaker"}
              /\ cmp.margins = "approx"
                    <=> Within10(margin.v * 100, benchmarks.margin_avg)
        /\ (g.t = "num" /\ g.v # 0) =>
              /\ cmp.growth \in {"approx", "fast", "good", "slow"}
              /\ cmp.growth = "approx"
                    <=> Within10(g.v * 100, benchmarks.growth_avg)

RollingWindow ==
    "SMA_5" :> 5 @@ "SMA_10" :> 10 @@ "SMA_20" :> 20 @@ "SMA_50" :> 50
    @@ "SMA_200" :> 200 @@ "RSI" :> 14 @@ "RSI_14" :> 14
    @@ "BOLL" :> 20 @@ "BOLL_Upper" :> 20 @@ "BOLL_Lower" :> 20
    @@ "BB_Middle" :> 20 @@ "BB_Upper" :> 20 @@ "BB_Lower" :> 20
    @@ "ATR" :> 14 @@ "ATR_14" :> 14 @@ "Stoch_K" :> 14 @@ "Stoch_D" :> 14
    @@ "Williams_R" :> 14 @@ "CCI" :> 20 @@ "MFI" :> 14
    @@ "KDJ_K" :> 9 @@ "KDJ_D" :> 9 @@ "KDJ_J" :> 9
    @@ "Volume_SMA_20" :> 20 @@ "Volume_SMA_50" :> 50
    @@ "Volume_SMA" :> 20 @@ "Volume_MA" :> 20

\* the window of each column computed with ewm(span)
EwmWindow ==
    "EMA_12" :> 12 @@ "EMA_26" :> 26 @@ "EMA_50" :> 50
    @@ "MACD" :> 26 @@ "MACD_Signal" :> 26 @@ "MACD_Histogram" :> 26

AllNaN(s)  == \A i \in 1 .. Len(s) : IsNaN(s[i])
NoneNaN(s) == \A i \in 1 .. Len(s) : ~IsNaN(s[i])

\* every column of the table w that the call assigned is NaN throughout when
\* the frame has fewer bars than the column's window
UndefinedBelow(w) ==
    \A name \in DOMAIN out.cols \cap DOMAIN w :
        Len(df.bars) < w[name] => AllNaN(out.cols[name])

\* C13 as stated: every windowed indicator, the EMA_n and MACD columns
\* included, is NaN at every bar when the series is shorter than its window.
C13_AsStated ==
    ipc \in {"returned", "raised"} =>
        UndefinedBelow(RollingWindow) /\ UndefinedBelow(EwmWindow)

\* C13, amended: every indicator computed over a rolling window (SMA, RSI,
\* Bollinger, ATR, Stochastic, Williams %R, CCI, MFI, KDJ, Volume SMA) is NaN
\* at every bar when the series is shorter than its window; the EMA_n and
\* MACD columns are defined from the first bar on.
C13_RollingUndefined ==
    ipc \in {"returned", "raised"} =>
        /\ UndefinedBelow(RollingWindow)
        /\ \A name \in DOMAIN out.cols \cap DOMAIN EwmWindow :
              NoneNaN(out.cols[name])

\* four bars: no window is filled, the EMA columns hold four numbers
C13_Witness ==
    /\ ipc = "returned"
    /\ entry = "_add_technical_indicators"
    /\ Len(df.bars) = 4
    /\ "KDJ_K" \in DOMAIN out.cols
    /\ AllNaN(out.cols["SMA_5"])
    /\ AllNaN(out.cols["KDJ_K"])
    /\ NoneNaN(out.cols["EMA_26"])

\* the rise and the fall of the close at bar j, as _calculate_rsi counts them:
\* the first bar has no change
Rise(j) == IF j = 1 THEN 0
           ELSE LET c == df.bars[j].Close - df.bars[j - 1].Close IN
                IF c > 0 THEN c ELSE 0

Fall(j) == IF j = 1 THEN 0
           ELSE LET c == df.bars[j - 1].Close - df.bars[j].Close IN
                IF c > 0 THEN c ELSE 0

RECURSIVE Total(_, _, _)
Total(Op(_), lo, hi) == IF lo > hi THEN 0 ELSE Op(lo) + Total(Op, lo + 1, hi)

\* C14: at every bar where the 14-bar mean gain and mean loss are defined,
\* RSI is 100 - 100/(1 + gain/loss) and lies in [0, 100] when the mean loss is
\* positive, and is exactly 100 when the mean loss is 0 and the mean gain is
\* positive.
C14_RsiBounded ==
    ipc = "returned" =>
        \A i \in 14 .. Len(df.bars) :
            LET gains  == Total(Rise, i - 13, i)
                losses == Total(Fall, i - 13, i)
                rsi    == out.cols["RSI"][i] IN
            /\ losses > 0 =>
                  /\ rsi = Frac(100 * gains, gains + losses)
                  /\ rsi.t = "num" /\ rsi.n >= 0 /\ rsi.n <= 100 * rsi.d
            /\ (losses = 0 /\ gains > 0) => rsi = FInt(100)

\* fourteen bars of rising closes: the mean loss is 0 and RSI is 100
C14_Witness ==
    /\ ipc = "returned"
    /\ entry = "_calculate_rsi"
    /\ Len(df.bars) >= 14
    /\ Total(Fall, 1, 14) = 0 /\ Total(Rise, 1, 14) > 0
    /\ out.cols["RSI"][14] = FInt(100)

\* C15: in every OBV column, OBV at the first bar is that bar's volume, and
\* at every later bar OBV changes by +volume when the close rose, -volume when
\* it fell, and 0 when it is unchanged.
C15_ObvSeeded ==
    (ipc = "returned" /\ "OBV" \in DOMAIN out.cols) =>
        LET obv == out.cols["OBV"] IN
        \A i \in 1 .. Len(df.bars) :
            IF i = 1 THEN obv[1] = FInt(df.bars[1].Volume)
            ELSE FSub(obv[i], obv[i - 1]) =
                    FInt(IF df.bars[i].Close > df.bars[i - 1].Close
                         THEN df.bars[i].Volume
                         ELSE IF df.bars[i].Close < df.bars[i - 1].Close
                         THEN -df.bars[i].Volume
                         ELSE 0)

\* the classic levels from a high h, a low l and a close c
Levels(h, l, c) ==
    [Pivot |-> Frac(h + l + c, 3),
     R1 |-> Frac(2 * (h + l + c) - 3 * l, 3),
     S1 |-> Frac(2 * (h + l + c) - 3 * h, 3),
     R2 |-> Frac((h + l + c) + 3 * (h - l), 3),
     S2 |-> Frac((h + l + c) - 3 * (h - l), 3)]

\* C16: in every implementation with Pivot/R1/R2/S1/S2 columns, the levels at
\* bar i come from the high, low and close of bar i-1, and are undefined at
\* the first bar.
C16_PivotsFromPreviousBar ==
    (ipc = "returned" /\ "Pivot" \in DOMAIN out.cols) =>
        \A name \in {"Pivot", "R1", "R2", "S1", "S2"} :
            \A i \in 1 .. Len(df.bars) :
                IF i = 1 THEN IsNaN(out.cols[name][1])
                ELSE out.cols[name][i] =
                        Levels(df.bars[i - 1].High, df.bars[i - 1].Low,
                               df.bars[i - 1].Close)[name]

\* (1 - a)^i for a = 2/(n + 1)
RECURSIVE Decay(_, _)
Decay(n, i) == IF i = 0 THEN FInt(1) ELSE FMul(F(n - 1, n + 1), Decay(n, i - 1))

\* sum over i = 0..t-1 of (1 - a)^i * x, x the close of bar t-i, or 1
RECURSIVE Weighted(_, _, _, _)
Weighted(n, t, i, closes) ==
    IF i = t THEN FInt(0)
    ELSE FAdd(FMul(Decay(n, i),
                   FInt(IF closes THEN df.bars[t - i].Close ELSE 1)),
              Weighted(n, t, i + 1, closes))

\* the exponentially weighted mean of the closes of bars 1..t
WeightedMean(n, t) == FDiv(Weighted(n, t, 0, TRUE), Weighted(n, t, 0, FALSE))

Exact(x) == x.t = "num"

\* C17: in every implementation with an EMA_n column, EMA_n at each bar is
\* the exponentially weighted mean of all closes so far, with a = 2/(n+1), and
\* the MACD column is the difference of the means for 12 and 26.
C17_EmaIsWeightedMean ==
    (ipc = "returned" /\ "EMA_12" \in DOMAIN out.cols) =>
        \A t \in 1 .. Len(df.bars) :
            /\ \A name \in DOMAIN out.cols \cap {"EMA_12", "EMA_26", "EMA_50"} :
                  (Exact(out.cols[name][t]) /\ Exact(WeightedMean(EwmWindow[name], t)))
                      => out.cols[name][t] = WeightedMean(EwmWindow[name], t)
            /\ LET macd == FSub(WeightedMean(12, t), WeightedMean(26, t)) IN
               (Exact(out.cols["MACD"][t]) /\ Exact(macd))
                   => out.cols["MACD"][t] = macd

\* the entry points that take a frame and return it enriched
FrameEntryPoints ==
    {"_add_technical_indicators", "_add_volume_indicators",
     "_add_support_resistance", "calculate_technical_indicators"}

\* C18: on a frame with zero bars every indicator entry point returns a
\* frame with zero bars and raises nothing.
C18_EmptyFrame ==
    (entry \in FrameEntryPoints /\ df.bars = <<>> /\ df.cols = Columns) =>
        /\ ipc = "returned"
        /\ \A name \in DOMAIN out.cols : out.cols[name] = <<>>

\* the columns the indicators of an entry point are computed from
RequiredBy(e) ==
    CASE e = "_add_technical_indicators" -> {"Close"}
      [] e = "_add_support_resistance"   -> {"Close", "High", "Low"}
      [] e = "add_technical_indicators"  -> {"Close", "Volume"}
      [] OTHER                           -> Columns

\* C19: when the frame lacks a column an entry point needs, the call fails
\* with an error naming the column, which reaches the caller; no entry point
\* catches the error and returns a frame or a no-data value, and none skips
\* an indicator because its column is missing.
C19_MissingColumnFails ==
    (ipc # "idle" /\ ~(RequiredBy(entry) \subseteq df.cols)) =>
        /\ ipc = "raised"
        /\ out.err = "KeyError"
        /\ out.col \in RequiredBy(entry) \ df.cols
        /\ out.caught = ""

\* the entry of the last request's key is fresh before the step: it exists
\* and is younger than the TTL
Fresh ==
    /\ last'.key \in DOMAIN cache[last'.client]
    /\ now - cache[last'.client][last'.key].timestamp < CacheTtl

\* the step leaves the value returned stored under the key with the current
\* time, and the entry is fresh after the step
StoredNow ==
    /\ last'.key \in DOMAIN cache'[last'.client]
    /\ cache'[last'.client][last'.key] =
           [data |-> last'.ret, timestamp |-> now']
    /\ now' - cache'[last'.client][last'.key].timestamp < CacheTtl

\* the step serves the request from the cache: the producer is not called,
\* the stored value is returned and the cache is left as it was
ServedFromCache ==
    /\ ~last'.called
    /\ last'.ret = cache[last'.client][last'.key].data
    /\ cache' = cache

\* C20 as stated: a request is served from the cache exactly when its key has
\* an entry younger than 300 s; otherwise the producer is called and its
\* result, whatever it is, is stored under the key with the current time.
C20_AsStated ==
    [][last' # last =>
          IF Fresh THEN ServedFromCache
          ELSE last'.called /\ StoredNow]_vars

\* C20: a request is served from the cache exactly when its key has an entry
\* younger than 300 s; otherwise the producer is called, and its result is
\* stored under the key with the current time unless it is None: a None
\* result is returned and the cache is left as it was.
C20_TtlMemoization ==
    [][last' # last =>
          IF Fresh THEN ServedFromCache
          ELSE /\ last'.called
               /\ IF last'.ret # "None" THEN StoredNow
                  ELSE cache' = cache]_vars

\* a request served from the cache one second before its entry expires
C20_Witness ==
    /\ last # <<>>
    /\ ~last.called
    /\ last.key \in DOMAIN cache[last.client]
    /\ last.at - cache[last.client][last.key].timestamp = CacheTtl - 1

\* C21: a call of get_enhanced_stock_data or get_enhanced_news that returns
\* data returns the data fetched for its own arguments: no entry of the cache
\* is shared by two requests that differ in an argument, and a call with
\* include_advanced_indicators=True is never given the series of a call
\* without.
C21_OneEntryPerRequest ==
    (last # <<>> /\ last.ret.kind \in {"data", "news"}) =>
        last.ret.args = last.args

\* C28: a call that returns the failure value, (None, None) or [], has called
\* the producer: a failure is never served from the cache.
C28_FailureNotCached ==
    (last # <<>> /\ last.ret.kind \in {"(None, None)", "[]"}) => last.called

\* the latest value of a column of the frame the metrics were computed from
\* is undefined: the column ends with NaN
Undefined(name) ==
    /\ name \in DOMAIN out.cols
    /\ IsNaN(out.cols[name][Len(out.cols[name])])

\* what the volume ratio adds to technical_score, in tenths
VolumePart ==
    IF FGt(out.volume_ratio, F(3, 2)) THEN 5
    ELSE IF FLt(out.volume_ratio, F(1, 2)) THEN -3 ELSE 0

\* what a defined MACD adds
MacdPart == IF Undefined("MACD") THEN 0 ELSE IF out.macd.n > 0 THEN 5 ELSE -5

\* what a defined RSI adds
RsiPart ==
    IF Undefined("RSI") THEN 0
    ELSE IF FGt(out.rsi, FInt(70)) THEN -10
    ELSE IF FLt(out.rsi, FInt(30)) THEN 10 ELSE 0

\* C22: when the latest RSI or MACD of the series is NaN, the indicator adds
\* nothing to technical_score, and so nothing to sentiment_score: the score
\* is what the other indicators and the volume ratio add.
C22_UndefinedAddsNothing ==
    (/\ ipc = "returned"
     /\ entry \in {"_get_enhanced_financial_metrics", "get_market_overview_enhanced"}
     /\ Undefined("RSI") \/ Undefined("MACD")) =>
        /\ out.technical_score = RsiPart + MacdPart + VolumePart
        /\ out.sentiment_score =
               AnalystScore(out.info.recommendationKey, out.upside_potential)
               + RsiPart + MacdPart + VolumePart

\* the step is a call of the method op
Called(op) == reply' # reply /\ reply'.op = op

\* the position q holds shares bought for cost in all
Holds(q, shares, cost) ==
    /\ q.shares = shares
    /\ q.avg_cost.t = "num"
    /\ FMul(FInt(shares), q.avg_cost) = cost

\* total_cost of a position
TotalCost(q) == FMul(FInt(q.shares), q.avg_cost)

\* what add_position does to the position of the upper-cased symbol: created
\* as given, or merged at the weighted average cost with its date kept
Added ==
    LET sym == Upper(reply'.symbol) IN
    /\ sym \in DOMAIN positions'
    /\ positions'[sym].symbol = sym
    /\ IF sym \notin DOMAIN positions
       THEN /\ positions'[sym].shares = reply'.shares
            /\ positions'[sym].avg_cost = reply'.price
            /\ positions'[sym].purchase_date =
                   (IF reply'.purchase_date = "None" THEN Today
                    ELSE reply'.purchase_date)
       ELSE /\ Holds(positions'[sym], positions[sym].shares + reply'.shares,
                     FAdd(TotalCost(positions[sym]),
                          FMul(FInt(reply'.shares), reply'.price)))
            /\ positions'[sym].purchase_date = positions[sym].purchase_date

RECURSIVE SharesOf(_)
SharesOf(purchases) ==
    IF purchases = <<>> THEN 0
    ELSE Head(purchases).shares + SharesOf(Tail(purchases))

RECURSIVE CostOf(_)
CostOf(purchases) ==
    IF purchases = <<>> THEN FInt(0)
    ELSE FAdd(FMul(FInt(Head(purchases).shares), Head(purchases).price),
              CostOf(Tail(purchases)))

RECURSIVE Accepted(_)
Accepted(purchases) ==
    IF purchases = <<>> THEN <<>>
    ELSE (IF Head(purchases).result THEN <<Head(purchases)>> ELSE <<>>)
         \o Accepted(Tail(purchases))

\* C23 as stated: every call of add_position creates the position or merges
\* into it at the weighted average cost, and after any sequence of calls for
\* a symbol its shares are the sum of the shares added and its total cost the
\* sum of the s*p.
C23_AsStated ==
    [][Called("add_position") =>
          /\ Added
          /\ \A sym \in DOMAIN reply'.bought :
                Holds(positions'[sym], SharesOf(reply'.bought[sym]),
                      CostOf(reply'.bought[sym]))]_vars

\* C23: a call of add_position creates the position, or, when the shares held
\* and the shares added do not sum to 0, merges into it at the weighted
\* average cost with the purchase date kept; when they sum to 0 the call
\* returns False and changes no position. After any sequence of calls for a
\* symbol its shares are the sum of the shares of the calls that returned
\* True, and its total cost the sum of their s*p.
C23_AddPosition ==
    [][Called("add_position") =>
          /\ IF /\ Upper(reply'.symbol) \in DOMAIN positions
                /\ positions[Upper(reply'.symbol)].shares + reply'.shares = 0
             THEN ~reply'.result /\ positions' = positions
             ELSE reply'.result /\ Added
          /\ \A sym \in DOMAIN reply'.bought :
                Holds(positions'[sym], SharesOf(Accepted(reply'.bought[sym])),
                      CostOf(Accepted(reply'.bought[sym])))]_vars

\* a lower-case symbol bought twice at different prices: three shares at an
\* average cost that is no whole number
C23_Witness ==
    /\ reply # <<>>
    /\ reply.op = "add_position" /\ reply.result /\ reply.n = 2
    /\ reply.symbol = "aapl"
    /\ "AAPL" \in DOMAIN positions
    /\ positions["AAPL"].shares = 3
    /\ positions["AAPL"].avg_cost.d = 3

\* every position but that of sym is as it was
OthersUnchanged(sym) ==
    \A k \in (DOMAIN positions \cup DOMAIN positions') \ {sym} :
        /\ k \in DOMAIN positions /\ k \in DOMAIN positions'
        /\ positions'[k] = positions[k]

C25_TrueMeansPersisted ==
    [][reply' # reply =>
          /\ reply'.result =>
                (file'.state = "written" /\ file'.content = positions')
          /\ (~reply'.result /\ reply'.err # "") => positions' = positions]_vars

\* C29: after any sequence of clicks every stored position has shares > 0
\* and avg_cost > 0 and is stored under its upper-case symbol, and the
\* position an Update was clicked for is still in the portfolio.
C29_PositionsValid ==
    /\ \A k \in DOMAIN positions :
          /\ positions[k].shares > 0
          /\ FGt(positions[k].avg_cost, FInt(0))
          /\ positions[k].symbol = k /\ Upper(k) = k
    /\ (reply # <<>> /\ reply.op = "Update") => reply.symbol \in DOMAIN positions

\* the trailing P/E values a mapping is compared under
PEValues == Nums({-5000, 0, 15000, 20000, 25000, 40000, 60000, 70000})

\* the analyzed mapping with a lower trailingPE and everything else as it is
LowerPE == {[data EXCEPT !.trailingPE = pe] :
                pe \in {x \in PEValues : LtX(x, Get(data.trailingPE))}}

\* the value _analyze_valuation returns for d
ValuationScore(d) == Mean(ValuationPoints(d, benchmarks).pts)

\* C26 as stated: lowering trailingPE, all else fixed, never lowers the
\* valuation score.
C26_AsStated ==
    pc = "done" =>
        \A d \in LowerPE : ValuationScore(d) >= result.valuation_score

\* C26: lowering trailingPE from one non-zero value to another, all else
\* fixed, never lowers the points given for the P/E ratio, and never lowers
\* the valuation score as long as the forward-P/E points stay the same (as
\* they do when forwardPE is missing).
C26_MonotoneInPE ==
    (pc = "done" /\ Truthy(Get(data.trailingPE))) =>
        \A d \in LowerPE :
            Truthy(d.trailingPE) =>
                /\ Sum(PEPoint(d, benchmarks).pts)
                       >= Sum(PEPoint(data, benchmarks).pts)
                /\ ForwardPEPoint(d) = ForwardPEPoint(data) =>
                       ValuationScore(d) >= result.valuation_score

\* a mapping with a forward P/E has been analyzed, and a lower non-zero
\* trailing P/E raises its valuation score
C26_Witness ==
    /\ pc = "done"
    /\ Truthy(Get(data.forwardPE))
    /\ Truthy(Get(data.trailingPE))
    /\ result.valuation_score = ValuationScore(data)
    /\ \E d \in LowerPE :
          /\ Truthy(d.trailingPE)
          /\ ForwardPEPoint(d) = ForwardPEPoint(data)
          /\ ValuationScore(d) > result.valuation_score

\* C27: RSI(14) and MFI(14) are defined only where 14 bar-to-bar changes
\* precede: the first bar is not counted as a zero change, so both are NaN
\* at each of the first 14 bars, and first defined at the 15th.
C27_FirstAtFifteenthBar ==
    ipc = "returned" =>
        \A name \in DOMAIN out.cols :
            \A i \in 1 .. Min(RsiWindow, Len(df.bars)) : IsNaN(out.cols[name][i])

\* C30: the integer N printed in the summary falls in the same threshold
\* bucket (>= 75, >= 60, >= 40, >= 25, else) as the unrounded overall score:
\* the recommendation and the tone of N are those of the result.
C30_PrintedScoreInBucket ==
    pc = "done" =>
        /\ GetRecommendation(result.summary.shown * OS) = result.recommendation
        /\ Tone(result.summary.shown * OS) = result.summary.tone

====
